---- MODULE Spec2Model ----
(***************************************************************************)
(* VTRACK: grouping of booking rows into individual and shared records     *)
(* (data_processor.py), the normalizers of utils.py, and the pickup-time   *)
(* sort key and the card renderers of formatter.py.                        *)
(*                                                                         *)
(* Python strings are modelled as sequences of one-character strings, so   *)
(* that strip, upper, split, zfill and int are computed, not assumed.      *)
(***************************************************************************)
EXTENDS Integers, Sequences, FiniteSets, TLC

\* ------------------------------------------------------------------------
\* Bounds
\* ------------------------------------------------------------------------
\* Largest number of input rows of one run.
MaxRows == 3

\* ------------------------------------------------------------------------
\* Python str primitives
\* ------------------------------------------------------------------------
LowerLetters == <<"a","b","c","d","e","f","g","h","i","j","k","l","m",
                  "n","o","p","q","r","s","t","u","v","w","x","y","z">>

UpperLetters == <<"A","B","C","D","E","F","G","H","I","J","K","L","M",
                  "N","O","P","Q","R","S","T","U","V","W","X","Y","Z">>

Digits == <<"0","1","2","3","4","5","6","7","8","9">>

\* The characters of the model in code-point order (only the order matters).
Ascii == <<" ", "+", "-", ".", "/">> \o Digits \o <<":", "<", "=", ">">>
         \o UpperLetters \o LowerLetters

Chars == {Ascii[i] : i \in 1..Len(Ascii)}

CodeOf == [c \in Chars |-> CHOOSE i \in 1..Len(Ascii) : Ascii[i] = c]

CharCode(c) == CodeOf[c]

IsSpace(c) == c = " "

DigitSet == {Digits[i] : i \in 1..Len(Digits)}

LetterSet == {LowerLetters[i] : i \in 1..26} \cup {UpperLetters[i] : i \in 1..26}

IsDigit(c) == c \in DigitSet

DigitVal(c) == CodeOf[c] - CodeOf["0"]

\* str.upper() on one character
UpperOf ==
    [c \in Chars |->
        IF \E i \in 1..26 : LowerLetters[i] = c
        THEN UpperLetters[CHOOSE i \in 1..26 : LowerLetters[i] = c]
        ELSE c]

UpperChar(c) == UpperOf[c]

\* str.upper()
StrUpper(s) == [i \in 1..Len(s) |-> UpperChar(s[i])]

\* s[a:b] with 0-based Python slice bounds already clipped to 0..
Slice(s, a, b) ==
    LET hi == IF b > Len(s) THEN Len(s) ELSE b
    IN  IF a >= hi THEN <<>> ELSE SubSeq(s, a + 1, hi)

RECURSIVE LStrip(_)
LStrip(s) == IF s # <<>> /\ IsSpace(Head(s)) THEN LStrip(Tail(s)) ELSE s

RECURSIVE RStrip(_)
RStrip(s) ==
    IF s # <<>> /\ IsSpace(s[Len(s)]) THEN RStrip(SubSeq(s, 1, Len(s) - 1)) ELSE s

\* str.strip()
Strip(s) == RStrip(LStrip(s))

\* c in s
Contains(s, c) == \E i \in 1..Len(s) : s[i] = c

\* s.split(sep) for a one-character separator
RECURSIVE SplitOn(_, _)
SplitOn(s, sep) ==
    IF ~Contains(s, sep) THEN <<s>>
    ELSE LET k == CHOOSE i \in 1..Len(s) :
                      s[i] = sep /\ \A j \in 1..(i - 1) : s[j] # sep
         IN  <<SubSeq(s, 1, k - 1)>> \o SplitOn(SubSeq(s, k + 1, Len(s)), sep)

\* s.zfill(2): zeros go after a leading sign
ZFill2(s) ==
    IF Len(s) >= 2 THEN s
    ELSE IF Len(s) = 1 /\ s[1] \in {"+", "-"} THEN <<s[1], "0">>
    ELSE IF Len(s) = 1 THEN <<"0", s[1]>>
    ELSE <<"0", "0">>

\* s.isdigit()
IsDigitStr(s) == s # <<>> /\ \A i \in 1..Len(s) : IsDigit(s[i])

RECURSIVE DigitsVal(_)
DigitsVal(s) ==
    IF s = <<>> THEN 0 ELSE 10 * DigitsVal(SubSeq(s, 1, Len(s) - 1)) + DigitVal(s[Len(s)])

\* int(s): surrounding whitespace and one sign are accepted, anything else
\* raises ValueError.
IntOk(s) ==
    LET t == Strip(s)
        u == IF t # <<>> /\ t[1] \in {"+", "-"} THEN Tail(t) ELSE t
    IN  IsDigitStr(u)

IntVal(s) ==
    LET t == Strip(s)
        neg == t # <<>> /\ t[1] = "-"
        u == IF t # <<>> /\ t[1] \in {"+", "-"} THEN Tail(t) ELSE t
    IN  IF neg THEN 0 - DigitsVal(u) ELSE DigitsVal(u)

\* ------------------------------------------------------------------------
\* utils.py
\* ------------------------------------------------------------------------
\* A missing cell (float NaN): a value that is no str. It is told apart from
\* every str of the model, which is a sequence of single characters.
NaN == <<"nan">>

\* pd.isna(val)
IsNa(val) == val = NaN

\* clean_time: the empty result for a missing value, else the str rewritten
clean_time(time_val) ==
    IF IsNa(time_val) THEN <<>>
    ELSE LET time_str == Strip(time_val)
             parts == SplitOn(time_str, ":")
         IN  IF Contains(time_str, ":") /\ Len(parts) >= 2
             THEN ZFill2(parts[1]) \o <<":">> \o ZFill2(Slice(parts[2], 0, 2))
             ELSE time_str

\* time_to_minutes raises: NaN is truthy, and "':' not in time_str" is a
\* TypeError for a float, outside the try block
TimeToMinutesRaises(time_str) == IsNa(time_str)

\* The try block of time_to_minutes completes without an exception.
TimeParses(time_str) ==
    /\ time_str # <<>>
    /\ Contains(time_str, ":")
    /\ LET parts == SplitOn(time_str, ":")
       IN  IntOk(parts[1]) /\ IntOk(Slice(parts[2], 0, 2))

time_to_minutes(time_str) ==
    IF time_str = <<>> \/ ~Contains(time_str, ":") THEN 0
    ELSE LET parts == SplitOn(time_str, ":")
         IN  IF IntOk(parts[1]) /\ IntOk(Slice(parts[2], 0, 2))
             THEN IntVal(parts[1]) * 60 + IntVal(Slice(parts[2], 0, 2))
             ELSE 0

\* format_date on the date spellings of the model: what pandas' parser
\* accepts is rendered as %d-%b-%y upper-cased, anything else falls through
\* every strptime format and is returned unchanged (str(date_val)).
Date05Jan25 == <<"0","5","-","J","A","N","-","2","5">>

DateIso05Jan25 == <<"2","0","2","5","-","0","1","-","0","5">>

Date06Jan25 == <<"0","6","-","J","A","N","-","2","5">>

format_date(date_val) ==
    IF date_val \in {Date05Jan25, DateIso05Jan25} THEN Date05Jan25
    ELSE IF date_val = Date06Jan25 THEN Date06Jan25
    ELSE date_val

\* the pattern matches word w (given in upper case) at 1-based position i,
\* ignoring case
MatchAtNoCase(s, i, w) ==
    /\ i + Len(w) - 1 <= Len(s)
    /\ \A k \in 1..Len(w) : UpperChar(s[i + k - 1]) = w[k]

\* first position at or after i that is not whitespace
RECURSIVE PastSpaces(_, _)
PastSpaces(s, i) == IF i <= Len(s) /\ IsSpace(s[i]) THEN PastSpaces(s, i + 1) ELSE i

\* re.sub(r'(?i)(india|ind)\s*', '', s), scanning from position i
RECURSIVE RemoveCountryText(_, _)
RemoveCountryText(s, i) ==
    IF i > Len(s) THEN <<>>
    ELSE IF MatchAtNoCase(s, i, <<"I","N","D","I","A">>)
    THEN RemoveCountryText(s, PastSpaces(s, i + 5))
    ELSE IF MatchAtNoCase(s, i, <<"I","N","D">>)
    THEN RemoveCountryText(s, PastSpaces(s, i + 3))
    ELSE <<s[i]>> \o RemoveCountryText(s, i + 1)

\* re.sub(r'[^\d\s\+]', '', s)
KeepPhoneChars(s) == SelectSeq(s, LAMBDA c : IsDigit(c) \/ IsSpace(c) \/ c = "+")

\* re.sub(r'[^\d]', '', s)
OnlyDigits(s) == SelectSeq(s, LAMBDA c : IsDigit(c))

\* s.replace('+', '').replace(' ', '')
DropPlusAndSpace(s) == SelectSeq(s, LAMBDA c : c # "+" /\ c # " ")

StartsWith91(digits) == Len(digits) >= 2 /\ digits[1] = "9" /\ digits[2] = "1"

StrPlus91 == <<"+","9","1"," ">>

\* Variant: a 10-digit number is split in two blocks without the country code.
FormatTenDigitsNoCode(digits) ==
    Slice(digits, 0, 5) \o <<" ">> \o Slice(digits, 5, Len(digits))

\* Variant: a 10-digit number is prefixed but left in one block.
FormatTenDigitsFlat(digits) == StrPlus91 \o digits

\* f"+91 {digits[:5]} {digits[5:]}"
FormatTenDigits(digits) ==
    StrPlus91 \o Slice(digits, 0, 5) \o <<" ">> \o Slice(digits, 5, Len(digits))

\* f"+91 {digits[2:7]} {digits[7:]}"
FormatWithCountryCode(digits) ==
    StrPlus91 \o Slice(digits, 2, 7) \o <<" ">> \o Slice(digits, 7, Len(digits))

\* f"+{digits[:2]} {digits[2:7]} {digits[7:]}"
FormatTwelveDigits(digits) ==
    <<"+">> \o Slice(digits, 0, 2) \o <<" ">> \o Slice(digits, 2, 7) \o <<" ">>
    \o Slice(digits, 7, Len(digits))

\* clean_phone_number on a str
clean_phone_number(phone) ==
    LET phone_str == Strip(KeepPhoneChars(RemoveCountryText(Strip(phone), 1)))
        digits == OnlyDigits(phone_str)
    IN  IF phone_str # <<>> /\ IsDigitStr(DropPlusAndSpace(phone_str))
        THEN IF StartsWith91(digits) /\ Len(digits) >= 12
             THEN FormatWithCountryCode(digits)
             ELSE IF Len(digits) = 10 THEN FormatTenDigits(digits)
             ELSE IF Len(digits) = 12 THEN FormatTwelveDigits(digits)
             ELSE phone_str
        ELSE phone_str

\* s.upper().startswith(w) for an upper-case w
UpperStartsWith(s, w) ==
    /\ Len(w) <= Len(s)
    /\ \A k \in 1..Len(w) : UpperChar(s[k]) = w[k]

\* '\s+' replaced by one space
RECURSIVE OneSpace(_)
OneSpace(s) ==
    IF s = <<>> THEN <<>>
    ELSE IF IsSpace(s[1]) THEN <<" ">> \o OneSpace(LStrip(s))
    ELSE <<s[1]>> \o OneSpace(Tail(s))

\* clean_name on a str
clean_name(name) ==
    LET name_str == OneSpace(Strip(name))
    IN  IF UpperStartsWith(name_str, <<"M","R",".">>)
        THEN <<"M","r",".">> \o Slice(name_str, 3, Len(name_str))
        ELSE IF UpperStartsWith(name_str, <<"M","R","S",".">>)
        THEN <<"M","r","s",".">> \o Slice(name_str, 4, Len(name_str))
        ELSE IF UpperStartsWith(name_str, <<"M","S",".">>)
        THEN <<"M","s",".">> \o Slice(name_str, 3, Len(name_str))
        ELSE name_str

\* re.sub(r'[^\w\s\-]', '', s)
KeepFlightChars(s) ==
    SelectSeq(s, LAMBDA c : IsDigit(c) \/ IsSpace(c) \/ c = "-" \/ c \in LetterSet)

\* clean_flight_number on a str
clean_flight_number(flight_no) ==
    LET flight_str == KeepFlightChars(Strip(flight_no))
    IN  IF flight_no = <<>> THEN <<>>
        ELSE IF Strip(flight_str) \in {<<>>, <<"-">>, <<"N","/","A">>, <<"N","A">>}
        THEN <<>>
        ELSE flight_str

\* ------------------------------------------------------------------------
\* data_processor.py: normalize_service_name
\* ------------------------------------------------------------------------
\* First index >= i of s that holds no whitespace (Len(s) + 1 if none).
RECURSIVE SkipSpaces(_, _)
SkipSpaces(s, i) == IF i <= Len(s) /\ IsSpace(s[i]) THEN SkipSpaces(s, i + 1) ELSE i

\* word (upper case) occurs in s at index i, ignoring letter case
MatchAt(s, i, word) ==
    /\ i >= 1
    /\ i + Len(word) - 1 <= Len(s)
    /\ \A j \in 1..Len(word) : UpperChar(s[i + j - 1]) = word[j]

\* '^\s*(NO\s+KIDDING\s*)?' removed
StripNoKidding(s) ==
    LET a == SkipSpaces(s, 1)
        b == SkipSpaces(s, a + 2)
    IN  IF MatchAt(s, a, <<"N","O">>) /\ b > a + 2
           /\ MatchAt(s, b, <<"K","I","D","D","I","N","G">>)
        THEN SubSeq(s, SkipSpaces(s, b + 7), Len(s))
        ELSE SubSeq(s, a, Len(s))

\* (TOUR|PACKAGE|WITH\s+LUNCH) matches at index i
SuffixWordAt(s, i) ==
    \/ MatchAt(s, i, <<"T","O","U","R">>)
    \/ MatchAt(s, i, <<"P","A","C","K","A","G","E">>)
    \/ /\ MatchAt(s, i, <<"W","I","T","H">>)
       /\ SkipSpaces(s, i + 4) > i + 4
       /\ MatchAt(s, SkipSpaces(s, i + 4), <<"L","U","N","C","H">>)

\* '\s*(TOUR|PACKAGE|WITH\s+LUNCH).*$' removed: the leftmost match to the end
RECURSIVE FirstSuffixWord(_, _)
FirstSuffixWord(s, i) ==
    IF i > Len(s) THEN 0
    ELSE IF SuffixWordAt(s, SkipSpaces(s, i)) THEN i
    ELSE FirstSuffixWord(s, i + 1)

StripSuffixWords(s) ==
    LET k == FirstSuffixWord(s, 1)
    IN  IF k > 0 THEN SubSeq(s, 1, k - 1) ELSE s

\* '\s*XRQT\s*' replaced by one space, every occurrence, left to right
RECURSIVE ReplaceXrqt(_, _)
ReplaceXrqt(s, i) ==
    IF i > Len(s) THEN <<>>
    ELSE IF MatchAt(s, SkipSpaces(s, i), <<"X","R","Q","T">>)
    THEN <<" ">> \o ReplaceXrqt(s, SkipSpaces(s, SkipSpaces(s, i) + 4))
    ELSE <<s[i]>> \o ReplaceXrqt(s, i + 1)

\* '\s+' replaced by one space
RECURSIVE CollapseSpaces(_)
CollapseSpaces(s) ==
    IF s = <<>> THEN <<>>
    ELSE IF IsSpace(s[1])
    THEN <<" ">> \o CollapseSpaces(SubSeq(s, SkipSpaces(s, 1), Len(s)))
    ELSE <<s[1]>> \o CollapseSpaces(Tail(s))

\* '\s+WITH$' removed
StripTrailingWith(s) ==
    LET n == Len(s)
    IN  IF n >= 5 /\ MatchAt(s, n - 3, <<"W","I","T","H">>) /\ IsSpace(s[n - 4])
        THEN RStrip(SubSeq(s, 1, n - 4))
        ELSE s

IsAlnumOrSpace(c) == IsDigit(c) \/ IsSpace(c) \/ c \in LetterSet

\* '[^A-Za-z0-9\s]' removed
KeepAlnumSpace(s) == SelectSeq(s, IsAlnumOrSpace)

normalize_service_name(service_name) ==
    IF service_name = <<>> THEN <<>>
    ELSE Strip(KeepAlnumSpace(StripTrailingWith(CollapseSpaces(
             ReplaceXrqt(StripSuffixWords(StripNoKidding(service_name)), 1)))))

\* ------------------------------------------------------------------------
\* data_processor.py: group_by_time_window
\* ------------------------------------------------------------------------
TimeWindowMinutes == 45

Abs(x) == IF x < 0 THEN 0 - x ELSE x

\* list.sort(key=...) is stable: a row goes behind every row whose key is
\* not larger than its own.
RECURSIVE InsertByTime(_, _)
InsertByTime(sorted, row) ==
    IF sorted = <<>> THEN <<row>>
    ELSE IF time_to_minutes(row.PickupTime) < time_to_minutes(Head(sorted).PickupTime)
    THEN <<row>> \o sorted
    ELSE <<Head(sorted)>> \o InsertByTime(Tail(sorted), row)

\* Variant: the rows are scanned in the order of the frame, unsorted.
SortByTimeSkipped(rs) == rs

RECURSIVE SortByTime(_)
SortByTime(rs) ==
    IF rs = <<>> THEN <<>>
    ELSE InsertByTime(SortByTime(SubSeq(rs, 1, Len(rs) - 1)), rs[Len(rs)])

\* Variant: the window is taken as half an hour.
CanJoinWindow30(row, current_group) ==
    \E i \in 1..Len(current_group) :
        Abs(time_to_minutes(row.PickupTime)
            - time_to_minutes(current_group[i].PickupTime)) <= 30

\* Variant: the window is taken as a full hour.
CanJoinWindow60(row, current_group) ==
    \E i \in 1..Len(current_group) :
        Abs(time_to_minutes(row.PickupTime)
            - time_to_minutes(current_group[i].PickupTime)) <= 60

\* Variant: the window bound itself is excluded (< for <=).
CanJoinStrict(row, current_group) ==
    \E i \in 1..Len(current_group) :
        Abs(time_to_minutes(row.PickupTime)
            - time_to_minutes(current_group[i].PickupTime)) < TimeWindowMinutes

\* can_join: the row is within the window of ANY row of current_group
CanJoin(row, current_group) ==
    \E i \in 1..Len(current_group) :
        Abs(time_to_minutes(row.PickupTime)
            - time_to_minutes(current_group[i].PickupTime)) <= TimeWindowMinutes

\* Variant: the group still open after the loop is not appended.
RECURSIVE ScanRowsDropLast(_, _, _)
ScanRowsDropLast(rs, groups, current_group) ==
    IF rs = <<>> THEN groups
    ELSE IF current_group = <<>> THEN ScanRowsDropLast(Tail(rs), groups, <<Head(rs)>>)
    ELSE IF CanJoin(Head(rs), current_group)
    THEN ScanRowsDropLast(Tail(rs), groups, Append(current_group, Head(rs)))
    ELSE ScanRowsDropLast(Tail(rs), Append(groups, current_group), <<Head(rs)>>)

\* the for loop over the sorted rows, then the trailing append
RECURSIVE ScanRows(_, _, _)
ScanRows(rs, groups, current_group) ==
    IF rs = <<>>
    THEN IF current_group # <<>> THEN Append(groups, current_group) ELSE groups
    ELSE IF current_group = <<>> THEN ScanRows(Tail(rs), groups, <<Head(rs)>>)
    ELSE IF CanJoin(Head(rs), current_group)
    THEN ScanRows(Tail(rs), groups, Append(current_group, Head(rs)))
    ELSE ScanRows(Tail(rs), Append(groups, current_group), <<Head(rs)>>)

\* group_by_time_window raises: with more than one row, time_to_minutes is
\* called on the PickupTime of every row (the sort key)
GroupByTimeWindowRaises(df_group) ==
    /\ Len(df_group) > 1
    /\ \E i \in 1..Len(df_group) : TimeToMinutesRaises(df_group[i].PickupTime)

group_by_time_window(df_group) ==
    IF Len(df_group) <= 1 THEN <<df_group>>
    ELSE ScanRows(SortByTime(df_group), <<>>, <<>>)

\* ------------------------------------------------------------------------
\* data_processor.py: group_shared_services
\* ------------------------------------------------------------------------
Dash == <<"-">>

StrNA == <<"N","A">>

StrNSlashA == <<"N","/","A">>

StrLowerNa == <<"n","a">>

StrLowerNSlashA == <<"n","/","a">>

StrSharing == <<"S","H","A","R","I","N","G">>

\* Variant: the placeholder list of the card renderer, which lacks NA.
clean_info_short_list(val) ==
    LET cleaned == Strip(val)
    IN  IF cleaned \in {Dash, StrNSlashA} THEN <<>> ELSE cleaned

clean_info(val) ==
    LET cleaned == Strip(val)
    IN  IF cleaned \in {Dash, StrNSlashA, StrNA, StrLowerNSlashA, StrLowerNa}
        THEN <<>> ELSE cleaned

\* Variant: ServiceType compared as it is, without strip() and upper().
IsSharingExact(row) == row.ServiceType = StrSharing

\* is_sharing
IsSharing(row) == StrUpper(Strip(row.ServiceType)) = StrSharing

\* A row of temp_df: the input row plus OriginalIndex (range(len), 0-based),
\* CleanPickupTime and the Clean<column> columns.
TempRow(df, i) ==
    df[i] @@
    [OriginalIndex |-> i - 1,
     CleanPickupTime |-> clean_time(df[i].PickupTime),
     CleanVehicalName |-> clean_info(df[i].VehicalName),
     CleanDriverName |-> clean_info(df[i].DriverName),
     CleanDriverNumber |-> clean_info(df[i].DriverNumber),
     CleanVehicleNumber |-> clean_info(df[i].VehicleNumber)]

TempDf(df) == [i \in 1..Len(df) |-> TempRow(df, i)]

\* Variant: the driver number is left out of the key.
vehicle_key_without_driver_number(row) ==
    <<format_date(row.ServiceDate),
      row.CleanVehicalName,
      row.CleanDriverName,
      <<>>,
      row.CleanVehicleNumber,
      normalize_service_name(row.ServiceName)>>

vehicle_key(row) ==
    <<format_date(row.ServiceDate),
      row.CleanVehicalName,
      row.CleanDriverName,
      row.CleanDriverNumber,
      row.CleanVehicleNumber,
      normalize_service_name(row.ServiceName)>>

\* str < str by code points
RECURSIVE StrLess(_, _)
StrLess(a, b) ==
    IF b = <<>> THEN FALSE
    ELSE IF a = <<>> THEN TRUE
    ELSE IF a[1] # b[1] THEN CharCode(a[1]) < CharCode(b[1])
    ELSE StrLess(Tail(a), Tail(b))

\* tuple < tuple, as groupby orders the group keys
RECURSIVE KeyLess(_, _)
KeyLess(k1, k2) ==
    IF k1 = <<>> \/ k2 = <<>> THEN FALSE
    ELSE IF Head(k1) # Head(k2) THEN StrLess(Head(k1), Head(k2))
    ELSE KeyLess(Tail(k1), Tail(k2))

\* the group keys in the order groupby('GroupKey') yields them
RECURSIVE SortedKeys(_)
SortedKeys(keys) ==
    IF keys = {} THEN <<>>
    ELSE LET m == CHOOSE k \in keys : \A o \in keys \ {k} : KeyLess(k, o)
         IN  <<m>> \o SortedKeys(keys \ {m})

IsIndividualRow(row) == ~IsSharing(row)

individual_df(temp_df) == SelectSeq(temp_df, IsIndividualRow)

\* sharing_df with its GroupKey column
WithGroupKey(row) == row @@ [GroupKey |-> vehicle_key(row)]

sharing_df(temp_df) ==
    LET sharing == SelectSeq(temp_df, IsSharing)
    IN  [i \in 1..Len(sharing) |-> WithGroupKey(sharing[i])]

\* one group of the groupby; sharing_df is in OriginalIndex order, so the
\* sort_values('OriginalIndex') of the group keeps this order
GroupOf(sdf, key) ==
    LET HasKey(row) == row.GroupKey = key
    IN  SelectSeq(sdf, HasKey)

IndividualRecord(row) ==
    [type |-> "individual", data |-> row, sort_index |-> row.OriginalIndex]

passenger_info(row) ==
    [pnr |-> Strip(row.PNR),
     leg_id |-> Strip(row.LegId),
     guest_name |-> clean_name(row.GuestName),
     whatsapp_no |-> clean_phone_number(row.WhatsappNo),
     alternate_no |-> clean_phone_number(row.AlternateNumber),
     adult |-> row.Adult,
     child |-> row.Child,
     infant |-> row.Infant,
     transfer_from |-> Strip(row.TransferFrom),
     transfer_to |-> Strip(row.TransferTo),
     service_name |-> Strip(row.ServiceName),
     pickup_time |-> clean_time(row.PickupTime),
     row_data |-> row]

RECURSIVE MinIndex(_)
MinIndex(rs) ==
    IF Len(rs) = 1 THEN rs[1].OriginalIndex
    ELSE LET m == MinIndex(Tail(rs))
         IN  IF rs[1].OriginalIndex < m THEN rs[1].OriginalIndex ELSE m

\* group_data of a time subgroup with more than one row; first_row is the
\* first row of the whole vehicle-key group
SharedRecord(subgroup, first_row) ==
    [type |-> "shared",
     passengers |-> [i \in 1..Len(subgroup) |-> passenger_info(subgroup[i])],
     common_data |->
        [service_date |-> format_date(first_row.ServiceDate),
         service_type |-> Strip(first_row.ServiceType),
         vehicle_name |-> first_row.CleanVehicalName,
         driver_name |-> first_row.CleanDriverName,
         driver_number |-> first_row.CleanDriverNumber,
         vehicle_number |-> first_row.CleanVehicleNumber,
         service_name |-> Strip(first_row.ServiceName),
         pickup_time |-> clean_time(first_row.PickupTime),
         group_size |-> Len(subgroup)],
     sort_index |-> MinIndex(subgroup)]

\* Variant: every time subgroup becomes a shared record (> 0 for > 1).
SubgroupRecordAlwaysShared(subgroup, first_row) ==
    IF Len(subgroup) > 0 THEN SharedRecord(subgroup, first_row)
    ELSE IndividualRecord(subgroup[1])

SubgroupRecord(subgroup, first_row) ==
    IF Len(subgroup) > 1 THEN SharedRecord(subgroup, first_row)
    ELSE IndividualRecord(subgroup[1])

\* the records of one vehicle-key group, in time-subgroup order
GroupRecords(group_df) ==
    LET time_subgroups == group_by_time_window(group_df)
    IN  [j \in 1..Len(time_subgroups) |-> SubgroupRecord(time_subgroups[j], group_df[1])]

RECURSIVE SharingRecords(_, _)
SharingRecords(sdf, keys) ==
    IF keys = <<>> THEN <<>>
    ELSE GroupRecords(GroupOf(sdf, Head(keys))) \o SharingRecords(sdf, Tail(keys))

\* grouped_records.sort(key=sort_index): stable
RECURSIVE InsertBySortIndex(_, _)
InsertBySortIndex(sorted, rec) ==
    IF sorted = <<>> THEN <<rec>>
    ELSE IF rec.sort_index < Head(sorted).sort_index THEN <<rec>> \o sorted
    ELSE <<Head(sorted)>> \o InsertBySortIndex(Tail(sorted), rec)

\* Variant: the final sort is left out.
SortBySortIndexSkipped(recs) == recs

RECURSIVE SortBySortIndex(_)
SortBySortIndex(recs) ==
    IF recs = <<>> THEN <<>>
    ELSE InsertBySortIndex(SortBySortIndex(SubSeq(recs, 1, Len(recs) - 1)), recs[Len(recs)])

\* group_shared_services raises: the exception of group_by_time_window on
\* one of the vehicle-key groups is not caught
GroupSharedServicesRaises(df) ==
    LET sdf == sharing_df(TempDf(df))
    IN  \E i \in 1..Len(sdf) : GroupByTimeWindowRaises(GroupOf(sdf, sdf[i].GroupKey))

group_shared_services(df) ==
    LET temp_df == TempDf(df)
        ind == individual_df(temp_df)
        sdf == sharing_df(temp_df)
        individual_records == [i \in 1..Len(ind) |-> IndividualRecord(ind[i])]
        keys == SortedKeys({sdf[i].GroupKey : i \in 1..Len(sdf)})
    IN  SortBySortIndex(individual_records \o SharingRecords(sdf, keys))

\* ------------------------------------------------------------------------
\* formatter.py: get_pickup_time_for_sorting
\* ------------------------------------------------------------------------
NoTimeKey == <<"9","9",":","9","9">>

get_pickup_time_for_sorting(record) ==
    IF record.type = "individual"
    THEN LET pickup_time == record.data.PickupTime
             time_str == Strip(pickup_time)
             parts == SplitOn(time_str, ":")
         IN  IF IsNa(pickup_time) \/ pickup_time = <<>> THEN NoTimeKey
             ELSE IF Contains(time_str, ":")
             THEN ZFill2(parts[1]) \o <<":">>
                  \o (IF Len(parts) > 1 THEN ZFill2(Slice(parts[2], 0, 2)) ELSE <<"0","0">>)
             ELSE IF Len(time_str) = 4 /\ IsDigitStr(time_str)
             THEN Slice(time_str, 0, 2) \o <<":">> \o Slice(time_str, 2, 4)
             ELSE NoTimeKey
    ELSE IF record.passengers # <<>> /\ record.passengers[1].pickup_time # <<>>
         THEN record.passengers[1].pickup_time
         \* common_data always has the key pickup_time, so the default of
         \* .get('pickup_time', '99:99') is never taken
         ELSE record.common_data.pickup_time

\* ------------------------------------------------------------------------
\* Input rows
\* ------------------------------------------------------------------------
StrPrivate == <<"P","R","I","V","A","T","E">>

StrInnova == <<"I","n","n","o","v","a">>

StrRavi == <<"R","a","v","i">>

StrPhone == <<"9","8">>

StrCityTour == <<"C","i","t","y"," ","T","o","u","r">>

T0030 == <<"0","0",":","3","0">>

T0810 == <<"0","8",":","1","0">>

T835 == <<"8",":","3","5">>

T0855 == <<"0","8",":","5","5">>

T0930 == <<"0","9",":","3","0">>

T0830NoColon == <<"0","8","3","0">>

StrPnr == <<"P","7">>

StrLeg == <<"1">>

StrGuest == <<"m","r","."," "," ","R","a","o">>

StrMobile == <<"9","8","7","6","5","4","3","2","1","0">>

StrHotel == <<"H","o","t","e","l">>

\* Adult, Child and Infant are ints: process_excel_file converts the three
\* columns with to_numeric(...).fillna(0).astype(int).
BaseRow ==
    [PNR |-> StrPnr, LegId |-> StrLeg, GuestName |-> StrGuest,
     WhatsappNo |-> StrMobile, AlternateNumber |-> <<>>,
     Adult |-> 2, Child |-> 1, Infant |-> 0,
     TransferFrom |-> StrHotel, TransferTo |-> <<>>, FlightNo |-> <<>>,
     ServiceType |-> StrSharing, PickupTime |-> T0810,
     VehicalName |-> StrInnova, DriverName |-> StrRavi,
     DriverNumber |-> StrPhone, VehicleNumber |-> Dash,
     ServiceDate |-> Date05Jan25, ServiceName |-> StrCityTour]

\* Rows of one vehicle that differ in pickup time; some are not Sharing.
PickupTimes == {<<>>, T0030, T0810, T835, T0855, T0930, T0830NoColon}

TimeRows ==
    {[BaseRow EXCEPT !.PickupTime = t] : t \in PickupTimes}
    \cup {[BaseRow EXCEPT !.PickupTime = t, !.ServiceType = StrPrivate] :
             t \in {<<>>, T0810}}

\* Sharing rows of one pickup time that differ in vehicle name and driver
\* number, given as a value, a padded value or a placeholder.
VehicleNames ==
    {StrInnova, <<" ">> \o StrInnova, Dash, StrNSlashA, StrLowerNSlashA, <<>>}

VehicleRows ==
    {[BaseRow EXCEPT !.VehicalName = v] : v \in VehicleNames}
    \cup {[BaseRow EXCEPT !.VehicalName = v, !.DriverNumber = StrNA] :
             v \in {StrInnova, Dash}}

\* Rows that differ in the spelling of ServiceType.
ServiceTypes ==
    {StrSharing,
     <<" ","s","h","a","r","i","n","g"," ">>,
     <<"S","h","a","r","i","n","g">>,
     StrPrivate,
     <<>>}

TypeRows ==
    {[BaseRow EXCEPT !.ServiceType = st] : st \in ServiceTypes}
    \cup {[BaseRow EXCEPT !.PickupTime = T835]}

SeqsUpTo(S, n) == UNION {[1..k -> S] : k \in 0..n}

Inputs == SeqsUpTo(TimeRows, MaxRows) \cup SeqsUpTo(VehicleRows, MaxRows)
          \cup SeqsUpTo(TypeRows, MaxRows)

\* ------------------------------------------------------------------------
\* State machine: one processing run
\* ------------------------------------------------------------------------
\* df, grouped_records, sort_keys, formatted_cards: one processing run.
\* arg, results: the argument of a normalizer and its successive results.
VARIABLES df, grouped_records, sort_keys, formatted_cards, arg, results, pc

vars == <<df, grouped_records, sort_keys, formatted_cards, arg, results, pc>>

Init ==
    /\ df \in Inputs
    /\ grouped_records = <<>>
    /\ sort_keys = <<>>
    /\ formatted_cards = <<>>
    /\ arg = <<>>
    /\ results = <<>>
    /\ pc = "loaded"

\* grouped_records = group_shared_services(df)
GroupSharedServices ==
    /\ pc = "loaded"
    /\ IF GroupSharedServicesRaises(df)
       THEN grouped_records' = <<>> /\ pc' = "raised"
       ELSE grouped_records' = group_shared_services(df) /\ pc' = "grouped"
    /\ UNCHANGED <<df, sort_keys, formatted_cards, arg, results>>

\* the pickup-time key of every record, as the caller takes it for the
\* chronological ordering of the cards
PickupSortKeys ==
    /\ pc = "grouped"
    /\ sort_keys' = [i \in 1..Len(grouped_records) |->
                        get_pickup_time_for_sorting(grouped_records[i])]
    /\ pc' = "keyed"
    /\ UNCHANGED <<df, grouped_records, formatted_cards, arg, results>>

Next == GroupSharedServices \/ PickupSortKeys

Spec == Init /\ [][Next]_vars

Grouped == pc \in {"grouped", "keyed"}

\* ------------------------------------------------------------------------
\* Vocabulary of the properties
\* ------------------------------------------------------------------------
\* the member rows of a record, in the order the record lists them
RecMembers(rec) ==
    IF rec.type = "individual" THEN <<rec.data>>
    ELSE [k \in 1..Len(rec.passengers) |-> rec.passengers[k].row_data]

RecIndexes(rec) == [k \in 1..Len(RecMembers(rec)) |-> RecMembers(rec)[k].OriginalIndex]

RecIndexSet(rec) == {RecIndexes(rec)[k] : k \in 1..Len(RecIndexes(rec))}

RecordIds == 1..Len(grouped_records)

RowIds == 0..(Len(df) - 1)

\* the input row of an OriginalIndex, with its derived columns
RowAt(i) == TempRow(df, i + 1)

Minutes(i) == time_to_minutes(df[i + 1].PickupTime)

SameKey(i, j) == vehicle_key(RowAt(i)) = vehicle_key(RowAt(j))

\* the records that hold row i
RecordsOf(i) == {j \in RecordIds : i \in RecIndexSet(grouped_records[j])}

SharedIds == {j \in RecordIds : grouped_records[j].type = "shared"}

\* C1: every input row, identified by its OriginalIndex, is a member of
\* exactly one record (the row of an Individual record or one passenger of a
\* Shared record): no row is dropped, none appears twice, none is invented.
C1_Coverage ==
    Grouped =>
        /\ \A i \in RowIds :
             Cardinality({<<j, k>> \in RecordIds \X (1..Len(df)) :
                 /\ k <= Len(RecIndexes(grouped_records[j]))
                 /\ RecIndexes(grouped_records[j])[k] = i}) = 1
        /\ \A j \in RecordIds : RecIndexSet(grouped_records[j]) \subseteq RowIds
        /\ \A j \in RecordIds : \A k \in 1..Len(RecMembers(grouped_records[j])) :
             RecMembers(grouped_records[j])[k].PickupTime
                 = df[RecIndexes(grouped_records[j])[k] + 1].PickupTime

C1_Witness ==
    /\ Grouped
    /\ Len(df) = 3
    /\ \E j \in RecordIds : grouped_records[j].type = "shared"
    /\ \E j \in RecordIds : grouped_records[j].type = "individual"

\* the time clusters of every vehicle-key group of the Sharing rows
Clusters ==
    LET sdf == sharing_df(TempDf(df))
        keys == {sdf[i].GroupKey : i \in 1..Len(sdf)}
    IN  UNION {LET g == group_by_time_window(GroupOf(sdf, key))
               IN  {g[c] : c \in 1..Len(g)} : key \in keys}

\* C2: a Shared record has at least 2 passengers, and a time cluster of
\* exactly one row is emitted as an Individual record.
C2_SharedHasTwo ==
    Grouped =>
        /\ \A j \in SharedIds : Len(grouped_records[j].passengers) >= 2
        /\ \A c \in Clusters :
             Len(c) = 1 =>
                \E j \in RecordIds :
                    /\ grouped_records[j].type = "individual"
                    /\ grouped_records[j].data.OriginalIndex = c[1].OriginalIndex

C2_Witness ==
    /\ Grouped
    /\ SharedIds # {}
    /\ \E c \in Clusters : Len(c) = 1
    /\ \E c \in Clusters : Len(c) = 2

SharingRowIds == {i \in RowIds : IsSharing(df[i + 1])}

\* the vehicle key and the pickup minutes of every input row
KeyOfRow == [i \in RowIds |-> vehicle_key(RowAt(i))]

MinutesOfRow == [i \in RowIds |-> Minutes(i)]

\* row i has a same-key Sharing companion, and all of them are at least d
\* minutes away from it (key, mins: KeyOfRow, MinutesOfRow)
FarFromAll(i, d, key, mins) ==
    /\ i \in SharingRowIds
    /\ \E o \in SharingRowIds : o # i /\ key[o] = key[i]
    /\ \A o \in SharingRowIds :
         (o # i /\ key[o] = key[i]) => Abs(mins[i] - mins[o]) >= d

AloneInRecord(i) ==
    \A j \in RecordsOf(i) :
        /\ grouped_records[j].type = "individual"
        /\ RecIndexSet(grouped_records[j]) = {i}

\* two distinct Sharing rows of one vehicle key, exactly d minutes apart
SameKeyApart(i, o, d, key, mins) ==
    /\ i \in SharingRowIds /\ o \in SharingRowIds
    /\ i # o
    /\ key[i] = key[o]
    /\ Abs(mins[i] - mins[o]) = d

LowerOf ==
    [c \in Chars |->
        IF \E i \in 1..26 : UpperLetters[i] = c
        THEN LowerLetters[CHOOSE i \in 1..26 : UpperLetters[i] = c]
        ELSE c]

\* ServiceType, trimmed and compared without regard to letter case, is SHARING
SharingByType(st) ==
    LET t == Strip(st)
    IN  [i \in 1..Len(t) |-> LowerOf[t[i]]] = <<"s","h","a","r","i","n","g">>

\* C5: a row is treated as Sharing exactly when its trimmed ServiceType equals
\* SHARING ignoring letter case: such a row is put in a Shared record with a
\* same-key Sharing row inside the window; every other row is an Individual
\* record of its own with sort_index = OriginalIndex.
C5_SharingExactly ==
    Grouped =>
        \A key \in {KeyOfRow} : \A mins \in {MinutesOfRow} :
            \A i \in RowIds :
                IF SharingByType(df[i + 1].ServiceType)
                THEN (\E o \in RowIds :
                          /\ o # i
                          /\ SharingByType(df[o + 1].ServiceType)
                          /\ key[o] = key[i]
                          /\ Abs(mins[i] - mins[o]) <= 45)
                     => \E j \in SharedIds : i \in RecIndexSet(grouped_records[j])
                ELSE /\ AloneInRecord(i)
                     /\ \E j \in RecordIds :
                          /\ RecordsOf(i) = {j}
                          /\ grouped_records[j].sort_index = i

\* a padded lower-case "sharing" row shares a record, next to a row that is
\* not Sharing
C5_Witness ==
    /\ Grouped
    /\ \E i \in RowIds :
         /\ df[i + 1].ServiceType # StrSharing
         /\ SharingByType(df[i + 1].ServiceType)
         /\ \E j \in SharedIds : i \in RecIndexSet(grouped_records[j])
    /\ \E i \in RowIds :
         /\ ~SharingByType(df[i + 1].ServiceType)
         /\ AloneInRecord(i)

MinOf(S) == CHOOSE m \in S : \A x \in S : m <= x

\* C6: the returned list is in strictly ascending order of sort_index, and a
\* record's sort_index is the least OriginalIndex of its member rows.
C6_SortedByMinIndex ==
    Grouped =>
        /\ \A j \in RecordIds :
             grouped_records[j].sort_index = MinOf(RecIndexSet(grouped_records[j]))
        /\ \A j, k \in RecordIds :
             j < k => grouped_records[j].sort_index < grouped_records[k].sort_index

\* a Shared record listed before an Individual record, its first passenger
\* not being its row of least OriginalIndex
C6_Witness ==
    /\ Grouped
    /\ \E j \in SharedIds :
         /\ RecIndexes(grouped_records[j])[1] # grouped_records[j].sort_index
         /\ j < Len(grouped_records)
         /\ grouped_records[j + 1].type = "individual"

\* C7: the passengers of a Shared record are listed in ascending
\* OriginalIndex order of their rows, whatever the pickup times are.
C7_PassengersByOriginalIndex ==
    Grouped =>
        \A j \in SharedIds :
            LET idx == RecIndexes(grouped_records[j])
            IN  \A a, b \in 1..Len(idx) : a < b => idx[a] < idx[b]

\* the four vehicle fields of common_data with the member rows' values
CommonFields == {"vehicle_name", "driver_name", "driver_number", "vehicle_number"}

CommonValue(rec, f) ==
    CASE f = "vehicle_name" -> rec.common_data.vehicle_name
      [] f = "driver_name" -> rec.common_data.driver_name
      [] f = "driver_number" -> rec.common_data.driver_number
      [] f = "vehicle_number" -> rec.common_data.vehicle_number

RowValue(row, f) ==
    CASE f = "vehicle_name" -> row.VehicalName
      [] f = "driver_name" -> row.DriverName
      [] f = "driver_number" -> row.DriverNumber
      [] f = "vehicle_number" -> row.VehicleNumber

\* the first trimmed value of field f, in member order, outside the
\* placeholder set ph; empty if there is none
RECURSIVE FirstNonPlaceholder(_, _, _)
FirstNonPlaceholder(members, f, ph) ==
    IF members = <<>> THEN <<>>
    ELSE IF Strip(RowValue(Head(members), f)) \notin ph
    THEN Strip(RowValue(Head(members), f))
    ELSE FirstNonPlaceholder(Tail(members), f, ph)

ListedPlaceholders == {<<>>, Dash, StrNSlashA, StrNA}

CleanedPlaceholders == ListedPlaceholders \cup {StrLowerNSlashA, StrLowerNa}

\* C8 as stated: each vehicle field of common_data is the first member value
\* that is not one of "", "-", "N/A", "NA", and empty only if there is none.
C8_FirstListedNonPlaceholder ==
    Grouped =>
        \A j \in SharedIds : \A f \in CommonFields :
            CommonValue(grouped_records[j], f)
                = FirstNonPlaceholder(RecMembers(grouped_records[j]), f, ListedPlaceholders)

\* C8 amended: each vehicle field of common_data is the first trimmed member
\* value that is not a placeholder, the placeholders being blank, "-",
\* "N/A", "NA", "n/a" and "na"; it is empty only if every member's value is
\* one of these.
C8_FirstNonPlaceholder ==
    Grouped =>
        \A j \in SharedIds : \A f \in CommonFields :
            CommonValue(grouped_records[j], f)
                = FirstNonPlaceholder(RecMembers(grouped_records[j]), f, CleanedPlaceholders)

\* a Shared record whose members carry different placeholders as vehicle
\* name, resolved to empty, beside a driver number that is resolved
C8_Witness ==
    /\ Grouped
    /\ \E j \in SharedIds :
         LET m == RecMembers(grouped_records[j])
         IN  /\ m[1].VehicalName # m[2].VehicalName
             /\ grouped_records[j].common_data.vehicle_name = <<>>
             /\ grouped_records[j].common_data.driver_number = StrPhone

\* the vehicle-key groups of the Sharing rows
KeyGroups ==
    LET sdf == sharing_df(TempDf(df))
    IN  {GroupOf(sdf, key) : key \in {sdf[i].GroupKey : i \in 1..Len(sdf)}}

\* C9: in the clustering of a vehicle-key group a row without a parseable
\* pickup time is ordered after every row that has one, and is not put in a
\* record with such a row.
C9_MissingTimeLast ==
    Grouped =>
        /\ \A g \in KeyGroups :
             Len(g) > 1 =>
                LET sorted == SortByTime(g)
                IN  \A a, b \in 1..Len(sorted) :
                        (a < b /\ ~TimeParses(sorted[a].PickupTime))
                            => ~TimeParses(sorted[b].PickupTime)
        /\ \A j \in SharedIds :
             LET m == RecMembers(grouped_records[j])
             IN  \A a, b \in 1..Len(m) :
                    ~TimeParses(m[a].PickupTime) => ~TimeParses(m[b].PickupTime)

TwoDigits(n) == <<Digits[(n \div 10) + 1], Digits[(n % 10) + 1]>>

\* the sort key C10 states for a record
StatedSortKey(rec) ==
    IF rec.type = "individual"
    THEN LET t == Strip(rec.data.PickupTime)
         IN  IF TimeParses(t)
             THEN TwoDigits(time_to_minutes(t) \div 60) \o <<":">>
                  \o TwoDigits(time_to_minutes(t) % 60)
             ELSE IF Len(t) = 4 /\ IsDigitStr(t)
             THEN <<t[1], t[2], ":", t[3], t[4]>>
             ELSE NoTimeKey
    ELSE IF rec.passengers[1].pickup_time # <<>> THEN rec.passengers[1].pickup_time
    ELSE IF rec.common_data.pickup_time # <<>> THEN rec.common_data.pickup_time
    ELSE NoTimeKey

\* C10: get_pickup_time_for_sorting gives "99:99" for a record without a
\* usable pickup time (an Individual row without one; a Shared record whose
\* first passenger and common_data both have none), else the zero-padded
\* HH:MM of the Individual row or the first passenger's (else common_data's)
\* pickup time of a Shared record.
C10_SortKeyOrNoTime ==
    pc = "keyed" =>
        \A j \in RecordIds : sort_keys[j] = StatedSortKey(grouped_records[j])

\* ------------------------------------------------------------------------
\* utils.py: format_pax_count, and the PAX string of the shared card
\* ------------------------------------------------------------------------
\* Largest passenger count of the inputs (12 is added as a two-digit count).
MaxPax == 3

\* Python values of different types: an int, a str, or None / NaN
PyInt(n) == [kind |-> "int", num |-> n, str |-> <<>>]

PyStr(s) == [kind |-> "str", num |-> 0, str |-> s]

PyNone == [kind |-> "none", num |-> 0, str |-> <<>>]

\* str(n) of an int
RECURSIVE NatToStr(_)
NatToStr(n) ==
    IF n < 10 THEN <<Digits[n + 1]>>
    ELSE NatToStr(n \div 10) \o <<Digits[(n % 10) + 1]>>

IntToStr(n) == IF n < 0 THEN <<"-">> \o NatToStr(0 - n) ELSE NatToStr(n)

\* 'int(x) if pd.notna(x) else 0' raises ValueError
CoerceRaises(x) == x.kind = "str" /\ ~IntOk(x.str)

\* 'int(x) if pd.notna(x) else 0'
CoerceInt(x) ==
    IF x.kind = "none" THEN 0
    ELSE IF x.kind = "int" THEN x.num
    ELSE IntVal(x.str)

StrPax == <<" ","P","A","X">>

Plus == <<"+">>

\* Variant: the older card format without the space before PAX.
PaxTextNoSpace(adult, child, infant) ==
    IF child > 0 \/ infant > 0
    THEN IF child > 0 /\ infant > 0
         THEN IntToStr(adult) \o Plus \o IntToStr(child) \o Plus \o IntToStr(infant)
              \o <<"P","A","X">>
         ELSE IF child > 0
         THEN IntToStr(adult) \o Plus \o IntToStr(child) \o <<"P","A","X">>
         ELSE IntToStr(adult) \o Plus \o IntToStr(infant) \o <<"P","A","X">>
    ELSE IntToStr(adult) \o <<"P","A","X">>

\* the f-strings of format_pax_count on ints
PaxText(adult, child, infant) ==
    IF child > 0 \/ infant > 0
    THEN IF child > 0 /\ infant > 0
         THEN IntToStr(adult) \o Plus \o IntToStr(child) \o Plus \o IntToStr(infant) \o StrPax
         ELSE IF child > 0
         THEN IntToStr(adult) \o Plus \o IntToStr(child) \o StrPax
         ELSE IntToStr(adult) \o Plus \o IntToStr(infant) \o StrPax
    ELSE IntToStr(adult) \o StrPax

\* format_pax_count: the returned str, or the ValueError of int()
format_pax_count(adult, child, infant) ==
    IF CoerceRaises(adult) \/ CoerceRaises(child) \/ CoerceRaises(infant)
    THEN [raised |-> TRUE, text |-> <<>>]
    ELSE [raised |-> FALSE,
          text |-> PaxText(CoerceInt(adult), CoerceInt(child), CoerceInt(infant))]

\* pax_str of create_shared_card_text; the counts of a passenger are ints
SharedPaxStr(adult, child, infant) ==
    IF child > 0 \/ infant > 0
    THEN IF child > 0 /\ infant > 0
         THEN IntToStr(adult) \o Plus \o IntToStr(child) \o Plus \o IntToStr(infant) \o StrPax
         ELSE IF child > 0
         THEN IntToStr(adult) \o Plus \o IntToStr(child) \o StrPax
         ELSE IntToStr(adult) \o Plus \o IntToStr(infant) \o StrPax
    ELSE IntToStr(adult) \o StrPax

PaxCounts == (0..MaxPax) \cup {12}

PaxValues ==
    {PyInt(n) : n \in PaxCounts}
    \cup {PyNone, PyStr(<<>>), PyStr(<<"a","b","c">>), PyStr(<<" ","2">>)}

InitPax ==
    /\ arg \in PaxValues \X PaxValues \X PaxValues
    /\ results = <<>>
    /\ df = <<>>
    /\ grouped_records = <<>>
    /\ sort_keys = <<>>
    /\ formatted_cards = <<>>
    /\ pc = "pax"

\* results = [format_pax_count(adult, child, infant)]
FormatPaxCount ==
    /\ pc = "pax"
    /\ results' = <<format_pax_count(arg[1], arg[2], arg[3])>>
    /\ pc' = "pax_formatted"
    /\ UNCHANGED <<df, grouped_records, sort_keys, formatted_cards, arg>>

AllInts == \A k \in 1..3 : arg[k].kind = "int"

\* the PAX string the shared card renders for a passenger of these counts
SharedCardPax ==
    /\ pc = "pax_formatted"
    /\ AllInts
    /\ results' = Append(results,
                     [raised |-> FALSE,
                      text |-> SharedPaxStr(arg[1].num, arg[2].num, arg[3].num)])
    /\ pc' = "pax_shared"
    /\ UNCHANGED <<df, grouped_records, sort_keys, formatted_cards, arg>>

NextPax == FormatPaxCount \/ SharedCardPax

SpecPax == InitPax /\ [][NextPax]_vars

\* the positive counts after the adults, each behind a "+"
PlusPart(n) == IF n > 0 THEN Plus \o IntToStr(n) ELSE <<>>

CountOrZero(x) ==
    IF x.kind = "int" THEN x.num
    ELSE IF x.kind = "str" /\ IntOk(x.str) THEN IntVal(x.str)
    ELSE 0

\* C14: format_pax_count never fails; a missing or non-numeric argument is
\* taken as 0 and a PAX string is returned.
C14_PaxNeverFails ==
    pc \in {"pax_formatted", "pax_shared"} =>
        /\ ~results[1].raised
        /\ results[1].text
             = IntToStr(CountOrZero(arg[1])) \o PlusPart(CountOrZero(arg[2]))
               \o PlusPart(CountOrZero(arg[3])) \o StrPax

\* ------------------------------------------------------------------------
\* utils.py: clean_phone_number
\* ------------------------------------------------------------------------
\* Largest number of digits of a phone input.
MaxPhoneLen == 12

\* Inputs: every string of 9s and 1s up to the bound, and a run of distinct
\* digits written the ways a sheet writes a number
PhoneDigits == {"9", "1"}

DigitRun == <<"9","8","7","6","5","4","3","2","1","0","9","8","7","6">>

PhonePrefixes ==
    {<<>>, <<"+">>, <<"+","9","1"," ">>, <<"9","1">>, <<" ","9","1","-">>,
     <<"I","n","d","i","a"," "," ">>, <<"i","N","D","+","9","1">>, <<"0">>,
     <<"i","n","i","n","d","d","9","1">>}

PhoneSuffixes == {<<>>, <<" ">>, <<" ","x">>, <<"+">>}

\* the run of n digits with a space after the fifth
Spaced(n) ==
    IF n > 5 THEN SubSeq(DigitRun, 1, 5) \o <<" ">> \o SubSeq(DigitRun, 6, n)
    ELSE SubSeq(DigitRun, 1, n)

PhoneInputs ==
    UNION {[1..n -> PhoneDigits] : n \in 0..MaxPhoneLen}
    \cup {p \o SubSeq(DigitRun, 1, n) \o x :
            p \in PhonePrefixes, n \in 0..MaxPhoneLen, x \in PhoneSuffixes}
    \cup {p \o Spaced(n) \o x :
            p \in PhonePrefixes, n \in 0..MaxPhoneLen, x \in PhoneSuffixes}

InitPhone ==
    /\ arg \in PhoneInputs
    /\ results = <<>>
    /\ df = <<>>
    /\ grouped_records = <<>>
    /\ sort_keys = <<>>
    /\ formatted_cards = <<>>
    /\ pc = "phone"

\* results = [clean_phone_number(x)]
CleanPhoneNumber ==
    /\ pc = "phone"
    /\ results' = <<clean_phone_number(arg)>>
    /\ pc' = "phone_cleaned"
    /\ UNCHANGED <<df, grouped_records, sort_keys, formatted_cards, arg>>

\* results = [clean_phone_number(x), clean_phone_number(clean_phone_number(x))]
CleanPhoneNumberAgain ==
    /\ pc = "phone_cleaned"
    /\ results' = Append(results, clean_phone_number(results[1]))
    /\ pc' = "phone_recleaned"
    /\ UNCHANGED <<df, grouped_records, sort_keys, formatted_cards, arg>>

NextPhone == CleanPhoneNumber \/ CleanPhoneNumberAgain

SpecPhone == InitPhone /\ [][NextPhone]_vars

\* C15: a string of exactly 10 digits D cleans to "+91 " D[0..5) " " D[5..10);
\* a digit string of at least 12 digits that starts with 91 cleans to "+91 ",
\* its digits 3-7, a space and all remaining digits.
C15_PhoneFormat ==
    (pc \in {"phone_cleaned", "phone_recleaned"} /\ IsDigitStr(arg)) =>
        /\ Len(arg) = 10 =>
             results[1] = <<"+","9","1"," ">> \o SubSeq(arg, 1, 5) \o <<" ">>
                          \o SubSeq(arg, 6, 10)
        /\ (Len(arg) >= 12 /\ arg[1] = "9" /\ arg[2] = "1") =>
             results[1] = <<"+","9","1"," ">> \o SubSeq(arg, 3, 7) \o <<" ">>
                          \o SubSeq(arg, 8, Len(arg))

\* "9876543210" and "919876543210" cleaned
C15_Witness ==
    /\ pc = "phone_cleaned"
    /\ arg \in {SubSeq(DigitRun, 1, 10), <<"9","1">> \o SubSeq(DigitRun, 1, 10)}
    /\ results[1] = <<"+","9","1"," ","9","8","7","6","5"," ","4","3","2","1","0">>

\* C16: clean_phone_number is idempotent: cleaning a cleaned number again
\* gives the same string, whatever the input.
C16_PhoneIdempotent ==
    pc = "phone_recleaned" => results[2] = results[1]

\* a 10-digit number, a 12-digit one without the 91 prefix, and a number of
\* another length written with text around it, each cleaned twice
C16_Witness ==
    /\ pc = "phone_recleaned"
    /\ \/ IsDigitStr(arg) /\ Len(arg) = 10 /\ results[1] # arg
       \/ IsDigitStr(arg) /\ Len(arg) = 12 /\ arg[1] = "1" /\ results[1] # arg
       \/ ~IsDigitStr(arg) /\ Len(OnlyDigits(arg)) = 7 /\ results[1] # arg

\* ------------------------------------------------------------------------
\* utils.py: clean_time applied to its own result
\* ------------------------------------------------------------------------
\* Largest length of a time input.
MaxTimeLen == 4

TimeChars == {"8", "5", ":", " "}

TimeInputs == UNION {[1..n -> TimeChars] : n \in 0..MaxTimeLen}

InitTime ==
    /\ arg \in TimeInputs
    /\ results = <<>>
    /\ df = <<>>
    /\ grouped_records = <<>>
    /\ sort_keys = <<>>
    /\ formatted_cards = <<>>
    /\ pc = "time"

\* results = [clean_time(x)]
CleanTime ==
    /\ pc = "time"
    /\ results' = <<clean_time(arg)>>
    /\ pc' = "time_cleaned"
    /\ UNCHANGED <<df, grouped_records, sort_keys, formatted_cards, arg>>

\* results = [clean_time(x), clean_time(clean_time(x))]
CleanTimeAgain ==
    /\ pc = "time_cleaned"
    /\ results' = Append(results, clean_time(results[1]))
    /\ pc' = "time_recleaned"
    /\ UNCHANGED <<df, grouped_records, sort_keys, formatted_cards, arg>>

NextTime == CleanTime \/ CleanTimeAgain

SpecTime == InitTime /\ [][NextTime]_vars

\* C17: clean_time is idempotent: cleaning a cleaned time again gives the
\* same string, whatever the input.
C17_TimeIdempotent ==
    pc = "time_recleaned" => results[2] = results[1]

\* ------------------------------------------------------------------------
\* formatter.py: create_card_text and create_shared_card_text
\* ------------------------------------------------------------------------
\* A card is the list 'lines' that "\n".join turns into the card text. Each
\* line carries, next to its text, the statement that appended it (kind) and
\* the passenger it belongs to (idx, 0 outside the passenger loop).
Line(kind, idx, text) == [kind |-> kind, idx |-> idx, text |-> text]

\* an append under an if
Opt(cond, line) == IF cond THEN <<line>> ELSE <<>>

StrTBZ == <<"T","B","Z"," ">>

StrDashes == <<" ","-","-"," ">>

StrFrom == <<"F","R","O","M"," ",":"," ">>

StrTo == <<"T","O"," "," "," ",":"," ">>

StrServiceName == <<"S","e","r","v","i","c","e"," ","N","a","m","e"," ",":"," ">>

StrPickUp == <<"P","I","C","K"," ","U","P"," ","T","I","M","E"," ">>

StrFlight == <<"F","L","I","G","H","T"," ","N","U","M","B","E","R"," ",":"," ">>

DividerWidth == 48

\* Variant: a divider one character short.
DividerShort == [i \in 1..(DividerWidth - 1) |-> "="]

\* "=" * 48
Divider == [i \in 1..DividerWidth |-> "="]

\* lines.append(""); lines.append("=" * 48)
DividerLines == <<Line("end_blank", 0, <<>>), Line("divider", 0, Divider)>>

\* '<br\s*/?>' matches at index i, ignoring case: the index after the match,
\* or 0
BrEndAt(s, i) ==
    IF MatchAt(s, i, <<"<","B","R">>)
    THEN LET a == SkipSpaces(s, i + 3)
             b == IF a <= Len(s) /\ s[a] = "/" THEN a + 1 ELSE a
         IN  IF b <= Len(s) /\ s[b] = ">" THEN b + 1 ELSE 0
    ELSE 0

\* re.sub(r'<br\s*/?>', ' ', s, flags=re.IGNORECASE)
RECURSIVE ReplaceBr(_, _)
ReplaceBr(s, i) ==
    IF i > Len(s) THEN <<>>
    ELSE IF BrEndAt(s, i) > 0 THEN <<" ">> \o ReplaceBr(s, BrEndAt(s, i))
    ELSE <<s[i]>> \o ReplaceBr(s, i + 1)

\* first index >= i of s that holds ">" (Len(s) + 1 if none)
RECURSIVE NextClose(_, _)
NextClose(s, i) == IF i <= Len(s) /\ s[i] # ">" THEN NextClose(s, i + 1) ELSE i

\* re.sub(r'<[^>]+>', '', s)
RECURSIVE RemoveTags(_, _)
RemoveTags(s, i) ==
    IF i > Len(s) THEN <<>>
    ELSE IF s[i] = "<" /\ NextClose(s, i + 1) > i + 1 /\ NextClose(s, i + 1) <= Len(s)
    THEN RemoveTags(s, NextClose(s, i + 1) + 1)
    ELSE <<s[i]>> \o RemoveTags(s, i + 1)

\* ' '.join(s.split())
JoinSplit(s) == Strip(OneSpace(s))

\* pickup_time of create_card_text
CardPickupTime(pickup_time_raw) ==
    LET pickup_time == Strip(pickup_time_raw)
        parts == SplitOn(pickup_time, ":")
    IN  IF IsNa(pickup_time_raw) THEN <<>>
        ELSE IF ~Contains(pickup_time, ":") /\ Len(pickup_time) = 4 /\ IsDigitStr(pickup_time)
        THEN Slice(pickup_time, 0, 2) \o <<":">> \o Slice(pickup_time, 2, 4)
        ELSE IF Contains(pickup_time, ":") /\ Len(parts) >= 2
        THEN ZFill2(parts[1]) \o <<":">> \o ZFill2(Slice(parts[2], 0, 2))
        ELSE pickup_time

\* the values for which no pickup line is written
NoPickupTimes == {<<>>, <<"0","0",":","0","0">>, <<"0",":","0","0">>}

\* the alternate numbers create_card_text leaves out
CardAlternateBlocklist ==
    {<<"+","9","1"," ","1","1","1","1","1","1","1","1","1","1">>,
     <<"+","9","1"," ","9","9","9","9","9","9","9","9","9">>,
     <<"+","9","1"," ","2","1">>, <<>>}

\* the alternate numbers create_shared_card_text leaves out
SharedAlternateBlocklist ==
    {<<"+","9","1"," ","1","1","1","1","1","1","1","1","1","1">>,
     <<"+","9","1"," ","9","9","9","9","9","9","9","9","9">>, <<>>}

\* the values for which the card writes no vehicle or driver line
CardPlaceholders == {<<>>, <<"-">>, <<"N","/","A">>}

\* the phone lines of the individual card
PhoneLines(whatsapp_no, alternate_no) ==
    Opt(whatsapp_no # <<>>, Line("whatsapp", 0, whatsapp_no))
    \o Opt(alternate_no # <<>> /\ alternate_no \notin CardAlternateBlocklist,
           Line("alternate", 0, alternate_no))

\* Variant: the TO line is written before the FROM line.
LocationLinesToFirst(transfer_from, transfer_to) ==
    Opt(transfer_to # <<>>, Line("to", 0, StrTo \o transfer_to))
    \o Opt(transfer_from # <<>>, Line("from", 0, StrFrom \o transfer_from))

\* the FROM and TO lines of the individual card
LocationLines(transfer_from, transfer_to) ==
    Opt(transfer_from # <<>>, Line("from", 0, StrFrom \o transfer_from))
    \o Opt(transfer_to # <<>>, Line("to", 0, StrTo \o transfer_to))

\* the vehicle and driver lines of the individual card
VehicleLines(vehicle_name, driver_name, driver_number, vehicle_number) ==
    Opt(vehicle_name \notin CardPlaceholders, Line("vehicle_name", 0, vehicle_name))
    \o Opt(driver_name \notin CardPlaceholders, Line("driver_name", 0, driver_name))
    \o Opt(driver_number \notin CardPlaceholders, Line("driver_number", 0, driver_number))
    \o Opt(vehicle_number \notin CardPlaceholders, Line("vehicle_number", 0, vehicle_number))

create_card_text(row) ==
    LET pnr == Strip(row.PNR)
        leg_id == Strip(row.LegId)
        guest_name == clean_name(row.GuestName)
        whatsapp_no == clean_phone_number(row.WhatsappNo)
        alternate_no == clean_phone_number(row.AlternateNumber)
        service_name == CollapseSpaces(ReplaceXrqt(Strip(row.ServiceName), 1))
        transfer_from == Strip(row.TransferFrom)
        transfer_to == IF Strip(row.TransferTo) = <<>> THEN service_name
                       ELSE Strip(row.TransferTo)
        service_date == format_date(row.ServiceDate)
        service_type == Strip(row.ServiceType)
        pickup_time == CardPickupTime(row.PickupTime)
        flight_no == clean_flight_number(row.FlightNo)
        pax_count == format_pax_count(PyInt(row.Adult), PyInt(row.Child),
                                      PyInt(row.Infant)).text
        service_text == IF service_name = <<>> THEN service_name
                        ELSE JoinSplit(RemoveTags(ReplaceBr(service_name, 1), 1))
    IN  <<Line("header", 0, StrTBZ \o pnr \o <<" ">> \o leg_id)>>
        \o Opt(service_date # <<>>, Line("date", 0, service_date))
        \o Opt(guest_name # <<>>, Line("guest", 0, guest_name \o StrDashes \o pax_count))
        \o PhoneLines(whatsapp_no, alternate_no)
        \o LocationLines(transfer_from, transfer_to)
        \o Opt(service_text # <<>>, Line("service", 0, StrServiceName \o service_text))
        \o Opt(pickup_time \notin NoPickupTimes,
               Line("pickup", 0, StrPickUp \o pickup_time))
        \o Opt(flight_no # <<>>, Line("flight", 0, StrFlight \o flight_no))
        \o <<Line("blank", 0, <<>>)>>
        \o Opt(service_type # <<>>, Line("type", 0, service_type))
        \o VehicleLines(Strip(row.VehicalName), Strip(row.DriverName),
                        Strip(row.DriverNumber), Strip(row.VehicleNumber))
        \o DividerLines

\* pickup_time of one passenger of the shared card
SharedPickupTime(passenger) ==
    IF passenger.pickup_time # <<>> THEN passenger.pickup_time
    ELSE LET pickup_time == Strip(passenger.row_data.PickupTime)
             parts == SplitOn(pickup_time, ":")
         IN  IF Contains(pickup_time, ":") /\ Len(parts) >= 2
             THEN ZFill2(parts[1]) \o <<":">> \o ZFill2(Slice(parts[2], 0, 2))
             ELSE pickup_time

\* the pickup line of passenger i (1-based) of the shared card
SharedPickupLines(pickup_time, common, i) ==
    IF pickup_time \notin NoPickupTimes
    THEN <<Line("pickup", i, StrPickUp \o pickup_time)>>
    ELSE Opt(common.pickup_time # <<>> /\ i = 1,
             Line("pickup", i, StrPickUp \o common.pickup_time))

\* the lines of passenger i (1-based) of n
PassengerLines(passenger, common, i, n) ==
    LET row_data == passenger.row_data
        pax_str == SharedPaxStr(passenger.adult, passenger.child, passenger.infant)
        own_to == IF passenger.transfer_to # <<>> THEN passenger.transfer_to
                  ELSE Strip(row_data.TransferTo)
        transfer_to == IF own_to # <<>> THEN own_to ELSE common.service_name
        own_name == IF passenger.service_name # <<>> THEN passenger.service_name
                    ELSE Strip(row_data.ServiceName)
        service_name == IF own_name # <<>> THEN own_name ELSE common.service_name
        flight_no == clean_flight_number(row_data.FlightNo)
    IN  <<Line("header", i, StrTBZ \o passenger.pnr \o <<" ">> \o passenger.leg_id)>>
        \o Opt(i = 1 /\ common.service_date # <<>>, Line("date", i, common.service_date))
        \o <<Line("guest", i, passenger.guest_name \o StrDashes \o pax_str)>>
        \o Opt(passenger.whatsapp_no # <<>>, Line("whatsapp", i, passenger.whatsapp_no))
        \o Opt(passenger.alternate_no # <<>>
               /\ passenger.alternate_no \notin SharedAlternateBlocklist,
               Line("alternate", i, passenger.alternate_no))
        \o Opt(passenger.transfer_from # <<>>,
               Line("from", i, StrFrom \o passenger.transfer_from))
        \o Opt(transfer_to # <<>>, Line("to", i, StrTo \o transfer_to))
        \o Opt(service_name # <<>>,
               Line("service", i,
                    StrServiceName \o JoinSplit(RemoveTags(ReplaceXrqt(service_name, 1), 1))))
        \o SharedPickupLines(SharedPickupTime(passenger), common, i)
        \o Opt(flight_no # <<>>, Line("flight", i, StrFlight \o flight_no))
        \o Opt(i < n, Line("passenger_blank", i, <<>>))

RECURSIVE AllPassengerLines(_, _, _)
AllPassengerLines(passengers, common, i) ==
    IF i > Len(passengers) THEN <<>>
    ELSE PassengerLines(passengers[i], common, i, Len(passengers))
         \o AllPassengerLines(passengers, common, i + 1)

\* the vehicle and driver lines of the shared card
SharedVehicleLines(common) ==
    (IF common.vehicle_name # <<>> /\ Strip(common.vehicle_name) \notin CardPlaceholders
     THEN <<Line("vehicle_name", 0, common.vehicle_name)>>
     ELSE Opt(common.driver_name # <<>> \/ common.driver_number # <<>>
              \/ common.vehicle_number # <<>>,
              Line("vehicle_blank", 0, <<>>)))
    \o Opt(common.driver_name # <<>> /\ Strip(common.driver_name) \notin CardPlaceholders,
           Line("driver_name", 0, common.driver_name))
    \o Opt(common.driver_number # <<>>
           /\ Strip(common.driver_number) \notin CardPlaceholders,
           Line("driver_number", 0, common.driver_number))
    \o Opt(common.vehicle_number # <<>>
           /\ Strip(common.vehicle_number) \notin CardPlaceholders,
           Line("vehicle_number", 0, common.vehicle_number))

create_shared_card_text(group_data) ==
    LET passengers == group_data.passengers
        common == group_data.common_data
    IN  AllPassengerLines(passengers, common, 1)
        \o <<Line("blank", 0, <<>>)>>
        \o Opt(common.service_type # <<>>, Line("type", 0, common.service_type))
        \o SharedVehicleLines(common)
        \o DividerLines

\* card_text of one record, as main() renders it
CardOf(record) ==
    IF record.type = "individual" THEN create_card_text(record.data)
    ELSE create_shared_card_text(record)

\* ------------------------------------------------------------------------
\* One individual card: create_card_text on one row
\* ------------------------------------------------------------------------
StrAirport == <<"A","i","r","p","o","r","t">>

StrFlightNo == <<"A","I"," ","1","0","1">>

StrPlate == <<"K","A","0","1">>

\* a row with a value in every column
FullRow ==
    [BaseRow EXCEPT !.ServiceType = StrPrivate, !.TransferTo = StrAirport,
                    !.AlternateNumber = <<"9","1">> \o StrMobile,
                    !.FlightNo = StrFlightNo, !.VehicleNumber = StrPlate]

\* the values a column takes: present, empty, padded, placeholder, unclean
ColumnValues ==
    [PNR |-> {StrPnr, <<>>},
     ServiceDate |-> {Date05Jan25, DateIso05Jan25, <<>>},
     GuestName |-> {StrGuest, <<>>, <<" ">>},
     WhatsappNo |-> {StrMobile, <<>>, <<"a","b","c">>},
     AlternateNumber |-> {<<"9","1">> \o StrMobile, <<>>,
                          <<"+","9","1"," ","1","1","1","1","1","1","1","1","1","1">>,
                          <<"+","9","1"," ","9","9","9","9","9","9","9","9","9">>,
                          <<"+","9","1"," ","2","1">>},
     TransferFrom |-> {StrHotel, <<>>},
     TransferTo |-> {StrAirport, <<>>, <<" ">>},
     ServiceName |-> {StrCityTour, <<>>, <<"<","b",">">>, <<"X","R","Q","T">>,
                      <<"C","i","t","y","<","B","R","/",">","T","o","u","r">>},
     PickupTime |-> {T0810, T835, <<>>, <<"0","0",":","0","0">>, <<"0",":","0","0">>,
                     T0830NoColon, <<"0","0","0","0">>},
     FlightNo |-> {StrFlightNo, <<>>, StrNSlashA},
     ServiceType |-> {StrPrivate, <<>>},
     VehicalName |-> {StrInnova, <<>>, Dash, StrNSlashA, StrNA},
     DriverName |-> {StrRavi, <<>>, Dash},
     DriverNumber |-> {StrPhone, StrNSlashA, StrNA},
     VehicleNumber |-> {StrPlate, <<>>, Dash}]

ColumnChoices ==
    UNION {{<<col, v>> : v \in ColumnValues[col]} : col \in DOMAIN ColumnValues}

\* the full row with up to two columns changed
IndividualCardRows ==
    {[[FullRow EXCEPT ![a[1]] = a[2]] EXCEPT ![b[1]] = b[2]] :
        a \in ColumnChoices, b \in ColumnChoices}

InitIndividualCard ==
    /\ df \in {<<row>> : row \in IndividualCardRows}
    /\ grouped_records = <<>>
    /\ sort_keys = <<>>
    /\ formatted_cards = <<>>
    /\ arg = <<>>
    /\ results = <<>>
    /\ pc = "row"

\* card_text = create_card_text(row)
CreateCardText ==
    /\ pc = "row"
    /\ formatted_cards' = <<create_card_text(df[1])>>
    /\ pc' = "card"
    /\ UNCHANGED <<df, grouped_records, sort_keys, arg, results>>

NextIndividualCard == CreateCardText

SpecIndividualCard == InitIndividualCard /\ [][NextIndividualCard]_vars

\* ------------------------------------------------------------------------
\* Vocabulary of the statements about cards
\* ------------------------------------------------------------------------
HasLine(card, kind) == \E i \in 1..Len(card) : card[i].kind = kind

TextOf(card, kind) == card[CHOOSE i \in 1..Len(card) : card[i].kind = kind].text

\* the stated order of the lines of an individual card
IndividualOrder ==
    <<"header", "date", "guest", "whatsapp", "alternate", "from", "to", "service",
      "pickup", "flight", "blank", "type", "vehicle_name", "driver_name",
      "driver_number", "vehicle_number", "end_blank", "divider">>

IndividualKinds == {IndividualOrder[i] : i \in 1..Len(IndividualOrder)}

RankOf == [k \in IndividualKinds |-> CHOOSE i \in 1..Len(IndividualOrder) : IndividualOrder[i] = k]

\* only the stated lines, each at most once, in the stated order
InFixedOrder(card) ==
    /\ \A i \in 1..Len(card) : card[i].kind \in IndividualKinds
    /\ \A i \in 1..Len(card) : \A j \in (i + 1)..Len(card) :
          RankOf[card[i].kind] < RankOf[card[j].kind]

\* header first, the two blank lines and the divider
FixedLines(card, row) ==
    /\ card[1].kind = "header"
    /\ card[1].text = <<"T","B","Z"," ">> \o Strip(row.PNR) \o <<" ">> \o Strip(row.LegId)
    /\ HasLine(card, "blank") /\ TextOf(card, "blank") = <<>>
    /\ HasLine(card, "end_blank") /\ TextOf(card, "end_blank") = <<>>
    /\ HasLine(card, "divider")

\* the column an optional line is written from
SourceColumn ==
    [date |-> "ServiceDate", guest |-> "GuestName", whatsapp |-> "WhatsappNo",
     alternate |-> "AlternateNumber", from |-> "TransferFrom", to |-> "TransferTo",
     service |-> "ServiceName", pickup |-> "PickupTime", flight |-> "FlightNo",
     type |-> "ServiceType", vehicle_name |-> "VehicalName",
     driver_name |-> "DriverName", driver_number |-> "DriverNumber",
     vehicle_number |-> "VehicleNumber"]

\* what stands before the value in a line
LinePrefix ==
    [date |-> <<>>, guest |-> <<>>, whatsapp |-> <<>>, alternate |-> <<>>,
     from |-> <<"F","R","O","M"," ",":"," ">>, to |-> <<"T","O"," "," "," ",":"," ">>,
     service |-> <<"S","e","r","v","i","c","e"," ","N","a","m","e"," ",":"," ">>,
     pickup |-> <<"P","I","C","K"," ","U","P"," ","T","I","M","E"," ">>,
     flight |-> <<"F","L","I","G","H","T"," ","N","U","M","B","E","R"," ",":"," ">>,
     type |-> <<>>, vehicle_name |-> <<>>, driver_name |-> <<>>,
     driver_number |-> <<>>, vehicle_number |-> <<>>]

\* the service name as the card shows it in the TO line
ShownServiceName(row) == CollapseSpaces(ReplaceXrqt(Strip(row.ServiceName), 1))

\* the value of a column as the card shows it
Shown(row, kind) ==
    CASE kind = "date" -> format_date(row.ServiceDate)
      [] kind = "guest" -> clean_name(row.GuestName)
      [] kind \in {"whatsapp", "alternate"} -> clean_phone_number(row[SourceColumn[kind]])
      [] kind = "to" -> IF Strip(row.TransferTo) # <<>> THEN Strip(row.TransferTo)
                        ELSE ShownServiceName(row)
      [] kind = "service" -> JoinSplit(RemoveTags(ReplaceBr(ShownServiceName(row), 1), 1))
      [] kind = "pickup" -> CardPickupTime(row.PickupTime)
      [] kind = "flight" -> clean_flight_number(row.FlightNo)
      [] OTHER -> Strip(row[SourceColumn[kind]])

\* the values the card is to suppress although they are not empty
Suppressed(row, kind) ==
    \/ kind = "pickup" /\ Shown(row, kind) \in {<<"0","0",":","0","0">>, <<"0",":","0","0">>}
    \/ kind = "alternate"
       /\ \/ Strip(row.AlternateNumber) \in CardAlternateBlocklist
          \/ Shown(row, kind) \in CardAlternateBlocklist
    \/ kind \in {"vehicle_name", "driver_name", "driver_number", "vehicle_number"}
       /\ Shown(row, kind) \in {Dash, StrNSlashA, StrNA}

\* the text of an optional line: prefix and shown value, the guest line with
\* the PAX count behind it
LineShows(card, row, kind) ==
    TextOf(card, kind) =
        LinePrefix[kind] \o Shown(row, kind)
        \o (IF kind = "guest"
            THEN <<" ","-","-"," ">> \o PaxText(row.Adult, row.Child, row.Infant)
            ELSE <<>>)

C18_BlocklistedAlternateOmitted ==
    (pc = "card" /\ df[1].AlternateNumber \in CardAlternateBlocklist) =>
        /\ ~HasLine(formatted_cards[1], "alternate")
        /\ \A i \in 1..Len(formatted_cards[1]) :
              formatted_cards[1][i].text # clean_phone_number(df[1].AlternateNumber)
              \/ df[1].AlternateNumber = <<>>

\* ------------------------------------------------------------------------
\* One run that renders the cards: grouping, then one card per record
\* ------------------------------------------------------------------------
\* Largest number of input rows of a run that renders cards.
MaxCardRows == 3

T0000 == <<"0","0",":","0","0">>

T000 == <<"0",":","0","0">>

\* Rows of one vehicle that differ in pickup time, Sharing or not.
CardTimeRows ==
    {[BaseRow EXCEPT !.PickupTime = t, !.ServiceType = st] :
        t \in {<<>>, T0000, T000, T0810}, st \in {StrSharing, StrPrivate}}

\* Rows of one pickup time that differ in vehicle name and driver number,
\* Sharing or not.
CardVehicleRows ==
    {[BaseRow EXCEPT !.DriverNumber = d, !.ServiceType = st] :
        d \in {StrPhone, StrNSlashA, StrNA}, st \in {StrSharing, StrPrivate}}
    \cup {[BaseRow EXCEPT !.VehicalName = Dash, !.ServiceType = st] :
             st \in {StrSharing, StrPrivate}}

\* Rows of one vehicle and pickup time that differ in guest name and
\* alternate number, Sharing or not.
CardGuestRows ==
    {[BaseRow EXCEPT !.GuestName = g, !.AlternateNumber = a, !.ServiceType = st] :
        g \in {StrGuest, <<>>}, a \in {<<>>, <<"+","9","1"," ","2","1">>},
        st \in {StrSharing, StrPrivate}}

CardInputs ==
    SeqsUpTo(CardTimeRows, MaxCardRows) \cup SeqsUpTo(CardVehicleRows, MaxCardRows)
    \cup SeqsUpTo(CardGuestRows, MaxCardRows)

InitCard ==
    /\ df \in CardInputs
    /\ grouped_records = <<>>
    /\ sort_keys = <<>>
    /\ formatted_cards = <<>>
    /\ arg = <<>>
    /\ results = <<>>
    /\ pc = "loaded"

\* for record in grouped_records: formatted_cards.append(card_text)
RenderCards ==
    /\ pc = "grouped"
    /\ formatted_cards' = [k \in 1..Len(grouped_records) |-> CardOf(grouped_records[k])]
    /\ pc' = "rendered"
    /\ UNCHANGED <<df, grouped_records, sort_keys, arg, results>>

NextCard == GroupSharedServices \/ RenderCards

SpecCard == InitCard /\ [][NextCard]_vars

\* C11: every card, individual or shared, ends with an empty line followed
\* by a last line of exactly 48 '=' characters.
C11_DividerLast ==
    pc = "rendered" =>
        \A k \in 1..Len(formatted_cards) :
            \A card \in {formatted_cards[k]} :
                /\ Len(card) >= 2
                /\ card[Len(card) - 1].text = <<>>
                /\ Len(card[Len(card)].text) = 48
                /\ \A i \in 1..48 : card[Len(card)].text[i] = "="

\* a run that rendered an individual card and a shared card
C11_Witness ==
    /\ pc = "rendered"
    /\ \E k \in 1..Len(grouped_records) : grouped_records[k].type = "individual"
    /\ \E k \in 1..Len(grouped_records) :
          /\ grouped_records[k].type = "shared"
          /\ Len(formatted_cards[k]) > 2

\* the rows a record was made from
RowsOfRecord(rec) ==
    IF rec.type = "individual" THEN {rec.data}
    ELSE {rec.passengers[j].row_data : j \in 1..Len(rec.passengers)}

\* the placeholders as the statement lists them
StatedPlaceholders == {<<>>, Dash, StrNSlashA, StrNA}

VehicleKinds == {"vehicle_name", "driver_name", "driver_number", "vehicle_number"}

\* C19: in every card the line for VehicleName, DriverName, DriverNumber or
\* VehicleNumber is written only if the value of that column is not one of
\* "", "-", "N/A", "NA"; a driver number of "N/A" is never written.
C19_NoPlaceholderLines ==
    pc = "rendered" =>
        \A k \in 1..Len(formatted_cards) :
            \A card \in {formatted_cards[k]} : \A kind \in VehicleKinds :
                HasLine(card, kind) =>
                    /\ \A row \in RowsOfRecord(grouped_records[k]) :
                          Strip(row[SourceColumn[kind]]) \notin StatedPlaceholders
                    /\ TextOf(card, kind) \notin StatedPlaceholders

\* the row a line of a card was written for: the row of the record, or of
\* the passenger the line belongs to
RowOfLine(rec, line) ==
    IF rec.type = "individual" THEN rec.data
    ELSE rec.passengers[line.idx].row_data

\* C20: no card has a "PICK UP TIME" line for a pickup time that is empty
\* or 00:00 / 0:00: neither is such a time written, nor does a row or
\* passenger with such a time get a pickup line.
C20_NoPickupLineForNoTime ==
    pc = "rendered" =>
        \A k \in 1..Len(formatted_cards) :
            \A i \in 1..Len(formatted_cards[k]) :
                \A line \in {formatted_cards[k][i]} :
                    line.kind = "pickup" =>
                        /\ line.text \notin {<<"P","I","C","K"," ","U","P"," ","T","I","M","E"," ">> \o t : t \in {<<>>, T0000, T000}}
                        /\ Strip(RowOfLine(grouped_records[k], line).PickupTime)
                              \notin {<<>>, T0000, T000}

\* the kinds of the lines of one passenger: header, name with PAX, phones,
\* FROM, TO, Service Name, PICK UP TIME, FLIGHT NUMBER
BlockKinds ==
    {"header", "guest", "whatsapp", "alternate", "from", "to", "service",
     "pickup", "flight"}

IsBlockLine(line) == line.kind \in BlockKinds

\* kind and text of the lines, without the passenger they belong to
KindAndText(lines) == [i \in 1..Len(lines) |-> <<lines[i].kind, lines[i].text>>]

\* the block of passenger j in a shared card
BlockOf(card, j) ==
    KindAndText(SelectSeq(card, LAMBDA line : line.idx = j /\ IsBlockLine(line)))

\* the same lines of the individual card of a row
OwnBlock(row) == KindAndText(SelectSeq(create_card_text(row), IsBlockLine))

\* C21: the block of lines of every passenger of a shared card is the same
\* as lines 1 and 3-9 of the individual card of that passenger's own row:
\* the same lines are present and they have the same text.
C21_PassengerBlockAsOwnCard ==
    pc = "rendered" =>
        \A k \in 1..Len(formatted_cards) :
            grouped_records[k].type = "shared" =>
                \A j \in 1..Len(grouped_records[k].passengers) :
                    BlockOf(formatted_cards[k], j)
                        = OwnBlock(grouped_records[k].passengers[j].row_data)

\* the kinds of the lines of a card, in order
KindsOf(card) == [i \in 1..Len(card) |-> card[i].kind]

\* the lines behind the last passenger block
TailOf(card) == SelectSeq(card, LAMBDA line : line.idx = 0)

\* the tail as stated for the common values of a record
StatedTail(common) ==
    <<"blank">>
    \o (IF common.service_type # <<>> THEN <<"type">> ELSE <<>>)
    \o (IF common.vehicle_name \notin StatedPlaceholders THEN <<"vehicle_name">> ELSE <<>>)
    \o (IF common.driver_name \notin StatedPlaceholders THEN <<"driver_name">> ELSE <<>>)
    \o (IF common.driver_number \notin StatedPlaceholders THEN <<"driver_number">> ELSE <<>>)
    \o (IF common.vehicle_number \notin StatedPlaceholders
        THEN <<"vehicle_number">> ELSE <<>>)
    \o <<"end_blank", "divider">>

\* the empty lines of a card
BlankCount(lines) == Len(SelectSeq(lines, LAMBDA line : line.text = <<>>))

\* C22: in a shared card one blank line stands between consecutive
\* passenger blocks and none behind the last block; what follows is one
\* blank line, the ServiceType line if non-empty, the non-placeholder
\* vehicle and driver lines, one blank line and the divider, with no other
\* blank line.
C22_SharedCardTail ==
    pc = "rendered" =>
        \A k \in 1..Len(formatted_cards) :
            grouped_records[k].type = "shared" =>
                \A card \in {formatted_cards[k]} :
                \A n \in {Len(grouped_records[k].passengers)} :
                    /\ \A j \in 1..n :
                          BlankCount(SelectSeq(card, LAMBDA line : line.idx = j))
                             = (IF j < n THEN 1 ELSE 0)
                    /\ \A i \in 1..(Len(card) - 1) :
                          (card[i + 1].idx # 0 /\ card[i].idx # card[i + 1].idx)
                             => card[i].text = <<>>
                    /\ KindsOf(TailOf(card)) = StatedTail(grouped_records[k].common_data)
                    /\ BlankCount(TailOf(card)) = 2

\* ------------------------------------------------------------------------
\* Grouping of rows whose PickupTime is missing or unparseable
\* ------------------------------------------------------------------------
\* Largest number of input rows of such a run.
MaxRawRows == 3

TimeNoDigits == <<"a","b",":","c","d">>

\* Rows of one vehicle whose PickupTime is a time, empty, unparseable or
\* missing, Sharing or not.
RawRows ==
    {[BaseRow EXCEPT !.PickupTime = t, !.ServiceType = st] :
        t \in {NaN, <<>>, TimeNoDigits, T0810}, st \in {StrSharing, StrPrivate}}

InitRaw ==
    /\ df \in SeqsUpTo(RawRows, MaxRawRows)
    /\ grouped_records = <<>>
    /\ sort_keys = <<>>
    /\ formatted_cards = <<>>
    /\ arg = <<>>
    /\ results = <<>>
    /\ pc = "loaded"

NextRaw == GroupSharedServices

SpecRaw == InitRaw /\ [][NextRaw]_vars

\* C23: group_shared_services returns the full record list without raising
\* for every input, also when a PickupTime is missing, no str or
\* unparseable: every row is then in exactly one record.
C23_GroupingNeverRaises ==
    /\ pc # "raised"
    /\ pc = "grouped" =>
          \A i \in RowIds : Cardinality(RecordsOf(i)) = 1

\* the vehicle key as stated, from the columns of an input row
StatedVehicleKey(row) ==
    <<format_date(row.ServiceDate), clean_info(row.VehicalName),
      clean_info(row.DriverName), clean_info(row.DriverNumber),
      clean_info(row.VehicleNumber), normalize_service_name(row.ServiceName)>>

StatedKeyOfRow == [i \in RowIds |-> StatedVehicleKey(df[i + 1])]

\* C24: all members of one Shared record have the same vehicle key, and two
\* Sharing rows whose keys differ in a component are never in one record,
\* however close their pickup times are.
C24_OneKeyPerSharedRecord ==
    pc = "grouped" =>
        \A key \in {StatedKeyOfRow} :
            /\ \A j \in SharedIds :
                  \A a, b \in RecIndexSet(grouped_records[j]) : key[a] = key[b]
            /\ \A a, b \in SharingRowIds :
                  key[a] # key[b] => RecordsOf(a) \cap RecordsOf(b) = {}

\* two Sharing rows of one pickup time and different keys in different
\* records, one of them in a Shared record with a third row
C24_Witness ==
    /\ pc = "grouped"
    /\ \E a, b \in SharingRowIds :
          /\ Minutes(a) = Minutes(b)
          /\ StatedVehicleKey(df[a + 1]) # StatedVehicleKey(df[b + 1])
          /\ RecordsOf(a) \cap RecordsOf(b) = {}
          /\ RecordsOf(a) \subseteq SharedIds

\* the first row of the cluster of a Shared record: its first passenger, or
\* its member of the least OriginalIndex
FirstRowsOf(rec) ==
    {rec.passengers[1].row_data}
    \cup {rec.passengers[k].row_data : k \in
            {k \in 1..Len(rec.passengers) :
                rec.passengers[k].row_data.OriginalIndex = rec.sort_index}}

\* C25: in every Shared record the pickup_time and the service_name of
\* common_data are those of the first row of the record's own cluster,
\* hence of one of its member rows, also when the vehicle-key group was
\* split into several time clusters.
C25_CommonFromOwnCluster ==
    pc = "grouped" =>
        \A j \in SharedIds :
            \A rec \in {grouped_records[j]} :
                \E row \in FirstRowsOf(rec) :
                    /\ rec.common_data.pickup_time = clean_time(row.PickupTime)
                    /\ rec.common_data.service_name = Strip(row.ServiceName)

\* ------------------------------------------------------------------------
\* The vehicle key of one row, by the spelling of its vehicle name
\* ------------------------------------------------------------------------
\* Largest length of a vehicle name of such a row.
MaxInfoLen == 3

InfoChars == {"N", "n", "/", "A", "a", "-", " "}

InfoInputs == UNION {[1..n -> InfoChars] : n \in 0..MaxInfoLen}

InitInfo ==
    /\ arg \in InfoInputs
    /\ results = <<>>
    /\ df = <<>>
    /\ grouped_records = <<>>
    /\ sort_keys = <<>>
    /\ formatted_cards = <<>>
    /\ pc = "info"

\* temp_df['CleanVehicalName'] and the vehicle_key of a Sharing row whose
\* VehicalName is the argument: results = [clean_info(x), vehicle_key]
BuildVehicleKey ==
    /\ pc = "info"
    /\ results' = <<clean_info(arg),
                    vehicle_key(TempRow(<<[BaseRow EXCEPT !.VehicalName = arg]>>, 1))>>
    /\ pc' = "keyed_row"
    /\ UNCHANGED <<df, grouped_records, sort_keys, formatted_cards, arg>>

NextInfo == BuildVehicleKey

SpecInfo == InitInfo /\ [][NextInfo]_vars

\* blank, "-", "N/A" or "NA" in any letter case
IsPlaceholderSpelling(val) ==
    StrUpper(Strip(val)) \in {<<>>, Dash, StrNSlashA, StrNA}

\* C26: every placeholder spelling of a vehicle field - blank, "-", "N/A"
\* or "NA" in any letter case - is normalized to the empty string when the
\* vehicle key is built, so that rows differing only in the placeholder get
\* the same key (that of the row with an empty field).
C26_PlaceholderAnyCase ==
    (pc = "keyed_row" /\ IsPlaceholderSpelling(arg)) =>
        /\ results[1] = <<>>
        /\ results[2] = StatedVehicleKey([BaseRow EXCEPT !.VehicalName = <<>>])

\* ------------------------------------------------------------------------
\* normalize_service_name on two service names
\* ------------------------------------------------------------------------
ServiceNames ==
    {<<"C","i","t","y"," ","T","o","u","r">>,
     <<"C","I","T","Y"," ","T","O","U","R">>,
     <<"c","i","t","y"," ","t","o","u","r">>,
     <<"N","o"," ","K","i","d","d","i","n","g"," ","C","i","t","y"," ","T","o","u","r">>,
     <<"C","I","T","Y"," ","X","R","Q","T">>,
     <<"c","i","t","y"," ","x","r","q","t">>,
     <<"S","a","f","a","r","i"," ","w","i","t","h"," ","l","u","n","c","h">>,
     <<"S","A","F","A","R","I"," ","W","I","T","H"," ","L","U","N","C","H">>,
     <<>>,
     <<"D","h","o","w","-","C","r","u","i","s","e">>,
     <<"d","h","o","w"," ","c","r","u","i","s","e"," ","p","a","c","k","a","g","e">>,
     <<"D","h","o","w"," ","C","r","u","i","s","e">>}

InitService ==
    /\ arg \in ServiceNames \X ServiceNames
    /\ results = <<>>
    /\ df = <<>>
    /\ grouped_records = <<>>
    /\ sort_keys = <<>>
    /\ formatted_cards = <<>>
    /\ pc = "names"

\* results = [normalize_service_name(a), normalize_service_name(b)]
NormalizeServiceNames ==
    /\ pc = "names"
    /\ results' = <<normalize_service_name(arg[1]), normalize_service_name(arg[2])>>
    /\ pc' = "normalized"
    /\ UNCHANGED <<df, grouped_records, sort_keys, formatted_cards, arg>>

NextService == NormalizeServiceNames

SpecService == InitService /\ [][NextService]_vars

\* C27: normalize_service_name upper-cases its input: the result is in upper
\* case, and two service names that differ only in letter case have the
\* same normalized name.
C27_ServiceNameCaseFolded ==
    pc = "normalized" =>
        /\ results[1] = StrUpper(results[1])
        /\ StrUpper(arg[1]) = StrUpper(arg[2]) => results[1] = results[2]

MaxPermRows == 3

\* Sharing rows of one vehicle at four pickup times, a Sharing row of
\* another vehicle and a row that is not Sharing.
PermRows ==
    {[BaseRow EXCEPT !.PickupTime = t] : t \in {<<>>, T0810, T0855, T0930}}
    \cup {[BaseRow EXCEPT !.VehicalName = Dash],
          [BaseRow EXCEPT !.ServiceType = StrPrivate]}

InitPerm ==
    /\ df \in SeqsUpTo(PermRows, MaxPermRows)
    /\ grouped_records = <<>>
    /\ sort_keys = <<>>
    /\ formatted_cards = <<>>
    /\ arg = <<>>
    /\ results = <<>>
    /\ pc = "loaded"

\* the frame with row perm[p] at position p
PermutedFrame(frame, perm) == [p \in 1..Len(frame) |-> frame[perm[p]]]

\* results = group_shared_services(the rows of df in another order)
GroupPermuted ==
    /\ pc = "grouped"
    /\ \E perm \in Permutations(1..Len(df)) :
          /\ arg' = perm
          /\ results' = group_shared_services(PermutedFrame(df, perm))
    /\ pc' = "regrouped"
    /\ UNCHANGED <<df, grouped_records, sort_keys, formatted_cards>>

NextPerm == GroupSharedServices \/ GroupPermuted

SpecPerm == InitPerm /\ [][NextPerm]_vars

\* the records as sets of rows of df (by position), with their type
PartitionOf(recs) ==
    {<<recs[j].type, RecIndexSet(recs[j])>> : j \in 1..Len(recs)}

\* the same for the records of the permuted frame, whose row of
\* OriginalIndex i is row perm[i + 1] of df
PermutedPartitionOf(recs, perm) ==
    {<<recs[j].type, {perm[i + 1] - 1 : i \in RecIndexSet(recs[j])}>> :
        j \in 1..Len(recs)}

\* C30: which rows share a record, and which are Individual, does not
\* depend on the order of the input rows: the permuted frame gives the same
\* sets of rows per record.
C30_PartitionOrderFree ==
    pc = "regrouped" =>
        PermutedPartitionOf(results, arg) = PartitionOf(grouped_records)

\* three rows regrouped in reversed order, two of them in a Shared record
C30_Witness ==
    /\ pc = "regrouped"
    /\ Len(df) = 3
    /\ arg = <<3, 2, 1>>
    /\ df[1] # df[3]
    /\ \E j \in 1..Len(results) : results[j].type = "shared"
    /\ Len(results) = 2

\* ------------------------------------------------------------------------
\* data_processor.py: process_excel_file
\* ------------------------------------------------------------------------
\* Largest number of sheet rows.
MaxSheetRows == 3

\* The cell texts that pd.read_excel reads as missing when na_values is not
\* given and keep_default_na is left True, as in the two calls of
\* process_excel_file; dtype=str does not switch this off.
DefaultNaValues ==
    {<<>>,
     <<"#", "N", "/", "A">>,
     <<"#", "N", "/", "A", " ", "N", "/", "A">>,
     <<"#", "N", "A">>,
     <<"-", "1", ".", "#", "I", "N", "D">>,
     <<"-", "1", ".", "#", "Q", "N", "A", "N">>,
     <<"-", "N", "a", "N">>,
     <<"-", "n", "a", "n">>,
     <<"1", ".", "#", "I", "N", "D">>,
     <<"1", ".", "#", "Q", "N", "A", "N">>,
     <<"<", "N", "A", ">">>,
     <<"N", "/", "A">>,
     <<"N", "A">>,
     <<"N", "U", "L", "L">>,
     <<"N", "a", "N">>,
     <<"N", "o", "n", "e">>,
     <<"n", "/", "a">>,
     <<"n", "a", "n">>,
     <<"n", "u", "l", "l">>}

\* one cell of the frame that pd.read_excel(..., dtype=str) returns
ReadCell(text) == IF text \in DefaultNaValues THEN NaN ELSE text

read_excel(sheet) ==
    [i \in 1..Len(sheet) |-> [c \in DOMAIN sheet[i] |-> ReadCell(sheet[i][c])]]

\* required_columns; 'Driver Name', 'Driver Number' and 'Vehicle Number'
\* are written without the space.
RequiredColumns ==
    {"PNR", "LegId", "GuestName", "WhatsappNo", "AlternateNumber",
     "ServiceName", "TransferFrom", "TransferTo", "Adult", "Child",
     "Infant", "ServiceDate", "ServiceType", "TransferType",
     "PickupTime", "FlightNo", "VehicalName", "DriverName",
     "DriverNumber", "VehicleNumber", "TourOptionName", "TransferName"}

\* 'if col not in df.columns: df[col] = ""'
AddRequiredColumns(frame) ==
    [i \in 1..Len(frame) |-> frame[i] @@ [c \in RequiredColumns |-> <<>>]]

vehicle_info_columns == {"VehicalName", "DriverName", "DriverNumber", "VehicleNumber"}

grouping_columns ==
    {"ServiceName", "ServiceDate", "PickupTime", "ServiceType", "TourOptionName"}

\* mask = notna & != '' & != ' ' & != '-'
FillMask(val) == ~IsNa(val) /\ val # <<>> /\ val # <<" ">> /\ val # Dash

\* entry i of df[col].where(mask).ffill()
RECURSIVE ForwardFilled(_, _, _)
ForwardFilled(frame, col, i) ==
    IF FillMask(frame[i][col]) THEN frame[i][col]
    ELSE IF i = 1 THEN NaN
    ELSE ForwardFilled(frame, col, i - 1)

\* 'for col in cols: df[col] = df[col].where(mask).ffill()'
FillColumns(frame, cols) ==
    [i \in 1..Len(frame) |->
        [c \in DOMAIN frame[i] |->
            IF c \in cols THEN ForwardFilled(frame, c, i) ELSE frame[i][c]]]

\* pd.to_numeric(errors='coerce').fillna(0).astype(int) of one cell that is
\* missing, a run of digits or no number at all; the sheets below hold no
\* cell with a sign, a decimal point or an exponent.
ToNumericInt(val) == IF ~IsNa(val) /\ IsDigitStr(val) THEN DigitsVal(val) ELSE 0

ConvertNumeric(frame) ==
    [i \in 1..Len(frame) |->
        [c \in DOMAIN frame[i] |->
            IF c \in {"Adult", "Child", "Infant"}
            THEN ToNumericInt(frame[i][c]) ELSE frame[i][c]]]

\* df.fillna("")
FillNa(frame) ==
    [i \in 1..Len(frame) |->
        [c \in DOMAIN frame[i] |->
            IF c \in {"Adult", "Child", "Infant"} THEN frame[i][c]
            ELSE IF IsNa(frame[i][c]) THEN <<>> ELSE frame[i][c]]]

\* time_to_sortable; the float branch is given for a run of digits, the one
\* spelling of a number that the sheets below can hold.
time_to_sortable(t) ==
    IF IsNa(t) \/ t = <<>> \/ Strip(t) = <<>> THEN NoTimeKey
    ELSE LET time_str == Strip(t)
             parts == SplitOn(time_str, ":")
         IN  IF Contains(time_str, ":")
             THEN ZFill2(parts[1]) \o <<":">> \o ZFill2(Slice(parts[2], 0, 2))
             ELSE IF Len(time_str) = 4 /\ IsDigitStr(time_str)
             THEN SubSeq(time_str, 1, 2) \o <<":">> \o SubSeq(time_str, 3, 4)
             ELSE IF IsDigitStr(time_str)
             THEN ZFill2(NatToStr(DigitsVal(time_str) * 24)) \o <<":", "0", "0">>
             ELSE NoTimeKey

\* pd.to_datetime(errors='coerce') of the dates used below, as yyyymmdd;
\* what is no date is NaT, which sort_values puts last.
to_datetime(val) ==
    IF val = Date05Jan25 \/ val = DateIso05Jan25 THEN 20250105
    ELSE IF val = Date06Jan25 THEN 20250106
    ELSE 99999999

\* row a comes before row b under ['SortableDate', 'SortableTime']
SortsBefore(a, b) ==
    \/ to_datetime(a.ServiceDate) < to_datetime(b.ServiceDate)
    \/ /\ to_datetime(a.ServiceDate) = to_datetime(b.ServiceDate)
       /\ StrLess(time_to_sortable(a.PickupTime), time_to_sortable(b.PickupTime))

RECURSIVE InsertSorted(_, _)
InsertSorted(sorted, row) ==
    IF sorted = <<>> THEN <<row>>
    ELSE IF SortsBefore(row, Head(sorted)) THEN <<row>> \o sorted
    ELSE <<Head(sorted)>> \o InsertSorted(Tail(sorted), row)

\* df.sort_values(['SortableDate', 'SortableTime']): rows with equal keys
\* keep their order
RECURSIVE sort_values(_)
sort_values(frame) ==
    IF frame = <<>> THEN <<>>
    ELSE InsertSorted(sort_values(SubSeq(frame, 1, Len(frame) - 1)), frame[Len(frame)])

\* The frame keeps the index read_excel gave it: field Index is the label
\* of a row, its position in the sheet counted from 0.
WithIndex(frame) == [i \in 1..Len(frame) |-> frame[i] @@ [Index |-> i - 1]]

\* the frame process_excel_file returns for a sheet
process_excel_file(sheet) ==
    sort_values(WithIndex(FillNa(ConvertNumeric(
        FillColumns(FillColumns(AddRequiredColumns(read_excel(sheet)),
                                vehicle_info_columns),
                    grouping_columns)))))

StrSedan == <<"S", "e", "d", "a", "n">>

StrNone == <<"N", "o", "n", "e">>

\* A sheet row: every cell is text.
SheetRow ==
    [BaseRow EXCEPT !.Adult = <<"2">>, !.Child = <<"1">>, !.Infant = <<>>]

\* Sheet rows that differ in the vehicle cell, in the pickup time cell or
\* in the date cell.
SheetVehicleCells ==
    {StrInnova, StrSedan, <<>>, Dash, <<" ">>, StrNSlashA, StrNA, StrNone}

SheetRows ==
    {[SheetRow EXCEPT !.VehicalName = v] : v \in SheetVehicleCells}
    \cup {[SheetRow EXCEPT !.PickupTime = t] : t \in {<<>>, T0030}}
    \cup {[SheetRow EXCEPT !.ServiceDate = <<>>]}

InitExcel ==
    /\ df \in SeqsUpTo(SheetRows, MaxSheetRows)
    /\ grouped_records = <<>>
    /\ sort_keys = <<>>
    /\ formatted_cards = <<>>
    /\ arg = <<>>
    /\ results = <<>>
    /\ pc = "uploaded"

\* results = process_excel_file(the sheet df)
ProcessExcelFile ==
    /\ pc = "uploaded"
    /\ results' = process_excel_file(df)
    /\ pc' = "processed"
    /\ UNCHANGED <<df, grouped_records, sort_keys, formatted_cards, arg>>

NextExcel == ProcessExcelFile

SpecExcel == InitExcel /\ [][NextExcel]_vars

\* the nine columns of the two fill loops
StatedFillColumns == vehicle_info_columns \cup grouping_columns

\* a sheet cell that is blank or one of "-", "N/A", "NA"
IsBlankOrPlaceholder(text) == Strip(text) = <<>> \/ text \in {Dash, StrNSlashA, StrNA}

\* the returned row that was row i of the sheet
ReturnedRow(i) ==
    results[CHOOSE k \in 1..Len(results) : results[k].Index = i - 1]

\* row j holds the nearest cell above row i in column c that is neither
\* blank nor a placeholder
IsNearestFilled(j, i, c) ==
    /\ j < i
    /\ ~IsBlankOrPlaceholder(df[j][c])
    /\ \A k \in (j + 1)..(i - 1) : IsBlankOrPlaceholder(df[k][c])

\* C28: after process_excel_file, in each of the nine filled columns a cell
\* that was blank or a placeholder holds the value of the nearest cell above
\* it that was neither, and a cell that was filled is unchanged.
C28_ForwardFill ==
    pc = "processed" =>
        \A i \in 1..Len(df) : \A c \in StatedFillColumns \cap DOMAIN df[i] :
            IF IsBlankOrPlaceholder(df[i][c])
            THEN \A j \in 1..(i - 1) :
                    IsNearestFilled(j, i, c) => ReturnedRow(i)[c] = df[j][c]
            ELSE ReturnedRow(i)[c] = df[i][c]

====
